---- MODULE Spec2Model ----
(***************************************************************************)
(* Stream processing pipeline of the kafka streaming application:          *)
(* per-topic delivery loops (KafkaService._consume_messages) handing       *)
(* messages to StreamProcessor._process_message, the dual-sink fan-out of  *)
(* _handle_processed_data with the tenacity retry of the publish calls,    *)
(* the metrics task (_collect_metrics / _flush_metrics_buffer) and the     *)
(* start / stop life cycle driven by lifespan() and the admin endpoint.    *)
(*                                                                         *)
(* All coroutines run on one asyncio event loop: a step of the model is    *)
(* the code a task runs between two suspension points (await).  Control    *)
(* requests (start_processing, stop, shutdown) are served one at a time.   *)
(* The produced / error statistics of the two service objects, which the   *)
(* pipeline never reads, are left out; consumed_count is kept.             *)
(*                                                                         *)
(* time.time() is read in units of the metrics interval: the clock `now'   *)
(* advances when asyncio.sleep of _collect_metrics returns.  Spec keeps    *)
(* the clock at 0 (its properties are about counts and order); SpecCycle   *)
(* lets it run, SpecHealth adds the health probe, SpecWindow fills the     *)
(* processing-time window up to its cap, SpecStop is the pipeline with the *)
(* outputs off and stop() resumed fairly.                                  *)
(*                                                                         *)
(* The data path (processor registry, _default_processor and the topic     *)
(* processors, the metadata and the sink calls of _handle_processed_data)  *)
(* is followed on one message at a time: SpecPayload over the messages of  *)
(* Messages, SpecRegistry over registrations, SpecOrders over orders with  *)
(* their items, SpecCategory over event types in their spellings,          *)
(* SpecAmount over amounts around the bucket thresholds.  A dict is a      *)
(* function from its keys, a JSON value a one-field record naming its      *)
(* type.                                                                   *)
(*                                                                         *)
(* SpecOverlap lets calls of start_processing and stop overlap (the task   *)
(* of lifespan and admin requests suspended in one another's awaits) and   *)
(* counts the tasks they create; SpecMaps follows the three maps of        *)
(* KafkaService under subscribe, unsubscribe and stop; SpecCdc the user    *)
(* event handler of StreamingMessageConsumer with its retry decorator.     *)
(***************************************************************************)
EXTENDS Integers, Sequences, FiniteSets, TLC

\* ------------------------------------------------------------- bounds
MaxMsgs == 3             \* messages the broker delivers, all topics
MaxControl == 1          \* admin control requests served
metrics_buffer_size == 1 \* settings.metrics_buffer_size (configuration)
MaxTime == 3             \* clock readings, in metrics intervals
max_allowed_processing_errors == 1 \* settings (configuration)
MaxSamples == 1002       \* durations tracked when the window is filled
MaxRegistrations == 2    \* calls of register_processor
MaxApplications == 2     \* successive calls of _default_processor
BoundaryReach == 10      \* hundredths sampled on each side of a threshold
MaxRequests == 3         \* overlapping calls of start_processing and stop
MaxEvents == 2           \* CDC events handed to the streaming consumer

\* ---------------------------------------------------- program constants
RetryAttempts == 3       \* @retry(stop=stop_after_attempt(3))
WindowCap == 1000        \* processing-time window cap

\* settings.kafka_topics_to_consume (configuration, an ordered sequence)
TopicsToConsume == <<"orders", "misc">>
Topics == {TopicsToConsume[i] : i \in 1..Len(TopicsToConsume)}

\* the topics _register_default_processors installs a processor for
DefaultProcessors == {"orders", "users", "events"}
AllTopics == Topics \cup DefaultProcessors

\* what a delivered value carries in total_amount: a number, or a string
AmountKinds == {"number", "text"}

\* the boolean output switches read from settings
Settings == [enable_kafka_output : BOOLEAN,
             enable_kinesis_output : BOOLEAN,
             enable_metrics_to_kafka : BOOLEAN]

RecordIds == Topics \X (1..MaxMsgs)

VARIABLES
  settings,            \* the configuration the process was started with
  kafka_is_running,    \* KafkaService.is_running
  producer,            \* KafkaService.producer: "none", "started", "stopped"
  consumers,           \* KafkaService.consumers (its topics)
  consumed_count,      \* KafkaService.consumed_count
  kinesis_is_running,  \* KinesisService.is_running
  is_running,          \* StreamProcessor.is_running
  processors,          \* StreamProcessor._processors: topic -> processor
  stats,               \* StreamProcessor._processing_stats counters
  metrics_buffer,      \* StreamProcessor._metrics_buffer
  processing_times,    \* StreamProcessor._processing_times
  loop,                \* per topic: the delivery loop task and its message
  delivered,           \* per topic: messages the broker has delivered
  invoked,             \* history: per message, calls of its processor
  mtask,               \* the metrics task of _processing_tasks
  starter,             \* the running start_processing() call
  stopper,             \* the running StreamProcessor.stop() call
  life,                \* position of lifespan()
  admin,               \* the admin control request being served
  requests,            \* admin control requests accepted so far
  emitted,             \* history: per record, batches it was published in
  lost,                \* history: records cleared without being published
  stop_returned,       \* history: stop() returned and no start since
  now,                 \* time.time()
  last_metrics_flush,  \* StreamProcessor._last_metrics_flush
  last_reset,          \* _processing_stats["last_reset"]
  messages_per_second, \* _processing_stats["messages_per_second"]
  avg_processing_time, \* _processing_stats["avg_processing_time"]
  completed,           \* history: calls completed since the counter reset
  since_boundary,      \* history: calls that succeeded since current_time
                       \* was last read by a metrics cycle
  health,              \* a running call of StreamProcessor.is_healthy()
  registered,          \* history: the registrations made, in order
  handled,             \* a call of _process_message followed as a whole:
                       \* its message, processor, payload and sink calls
  enriched,            \* _default_processor applied to a value, then to
                       \* its own output
  bucketed,            \* the last two calls of _categorize_amount
  control_calls,       \* per request: a call of start_processing() or
                       \* stop() that may overlap with the others
  processing_tasks,    \* StreamProcessor._processing_tasks, each metrics
                       \* task named by the call that created it
  metrics_tasks,       \* per call: the metrics task it created, alive,
                       \* cancelled or ended by itself
  live_loops,          \* per topic: _consume_messages tasks not ended
  consumer_tasks,      \* KafkaService._consumer_tasks: topic -> the state
                       \* of the task stored for it
  message_handlers,    \* KafkaService._message_handlers (its topics)
  streaming_consumer   \* StreamingMessageConsumer: its two counters and
                       \* the handler call in progress

vars == <<settings, kafka_is_running, producer, consumers, consumed_count,
          kinesis_is_running, is_running, processors, registered, stats, metrics_buffer,
          processing_times, loop, delivered, invoked, mtask, starter, stopper, life,
          admin, requests, emitted, lost, stop_returned, now,
          last_metrics_flush, last_reset, messages_per_second,
          avg_processing_time, completed, since_boundary, health,
          handled, enriched, bucketed, control_calls, processing_tasks,
    metrics_tasks, live_loops, consumer_tasks, message_handlers,
    streaming_consumer>>

overlapVars == <<control_calls, processing_tasks, metrics_tasks>>
mapVars == <<live_loops, consumer_tasks, message_handlers>>
extraVars == <<bucketed, overlapVars, mapVars, streaming_consumer>>
callVars == <<handled, enriched>>
kafkaVars == <<kafka_is_running, producer, consumers>>
handlerVars == <<loop, stats, metrics_buffer, processing_times,
                 consumed_count, completed, since_boundary>>
pipelineVars == <<settings, kafka_is_running, producer, consumers,
                  consumed_count, kinesis_is_running, is_running, processors, registered,
                  stats, metrics_buffer, processing_times, loop, delivered, invoked,
                  mtask, starter, stopper, life, admin, requests, emitted,
                  lost, stop_returned, now, last_metrics_flush, last_reset,
                  messages_per_second, avg_processing_time, completed,
                  since_boundary, handled, enriched, bucketed, control_calls, processing_tasks,
    metrics_tasks, live_loops, consumer_tasks, message_handlers,
    streaming_consumer>>
pipelineVarsButBucketed ==
  <<settings, kafka_is_running, producer, consumers, consumed_count,
    kinesis_is_running, is_running, processors, registered, stats,
    metrics_buffer, processing_times, loop, delivered, invoked, mtask,
    starter, stopper, life, admin, requests, emitted, lost, stop_returned,
    now, last_metrics_flush, last_reset, messages_per_second,
    avg_processing_time, completed, since_boundary, handled, enriched, control_calls, processing_tasks,
    metrics_tasks, live_loops, consumer_tasks, message_handlers,
    streaming_consumer>>
timeVars == <<now, last_metrics_flush, last_reset, messages_per_second,
              avg_processing_time>>
metricsVars == <<mtask, emitted, lost>>
controlVars == <<starter, stopper, life, admin, requests, stop_returned,
                 is_running, processors, registered>>

\* ------------------------------------------------------------ helpers
\* a delivery loop task: where it is suspended, the offset of the message it
\* handles, the publish attempt, the publishes made for that message to
\* <topic>_processed (pub) and <topic>-processed (put), and how the last
\* handler call ended
NoTask == [pc |-> "none", off |-> 0, att |-> 0, pub |-> 0, put |-> 0,
           res |-> "none", start |-> 0]

\* the metrics task: where it is suspended, the publish attempt, how many
\* records of the buffer the batch handed to the producer holds, and the
\* current_time its cycle read
NoMetricsTask == [pc |-> "none", att |-> 0, sent |-> 0, cur |-> 0]

\* no call of _process_message is being followed
NoCall ==
  [message |-> [topic |-> "", partition |-> [none |-> TRUE],
                offset |-> [none |-> TRUE], key |-> [none |-> TRUE],
                value |-> <<>>],
   processor |-> "none", outcome |-> "none", payload |-> <<>>,
   calls |-> <<>>]

\* _default_processor has not been applied
NoEnrichment == [input |-> <<>>, outs |-> <<>>]

\* no call of is_healthy() is running
NoProbe == [pc |-> "idle", kafka_healthy |-> FALSE, kinesis_healthy |-> FALSE,
            result |-> "none"]

SeqToSet(s) == {s[i] : i \in 1..Len(s)}

\* the last n entries of s: s[-n:]
LastN(s, n) == IF Len(s) <= n THEN s ELSE SubSeq(s, Len(s) - n + 1, Len(s))

RECURSIVE SumOver(_, _)
SumOver(f, S) ==
  IF S = {} THEN 0
  ELSE LET x == CHOOSE y \in S : TRUE IN f[x] + SumOver(f, S \ {x})

RECURSIVE SumSeq(_)
SumSeq(s) == IF s = <<>> THEN 0 ELSE Head(s) + SumSeq(Tail(s))

RECURSIVE GCD(_, _)
GCD(a, b) == IF b = 0 THEN a ELSE GCD(b, a % b)

\* the number n / d (d > 0), in lowest terms
Frac(n, d) == LET g == GCD(n, d) IN [num |-> n \div g, den |-> d \div g]

Zero == [num |-> 0, den |-> 1]

\* messages delivered so far, over all topics
TotalDelivered == SumOver(delivered, Topics)

\* produce_message's guard and a usable producer
KafkaUsable == kafka_is_running /\ producer = "started"

\* put_record's guard
KinesisUsable == kinesis_is_running

\* a slip: the attempt limit is tested after the sleep, a fourth attempt
\* is made
AfterFailedAttempt_OneMore(att) ==
  IF att <= RetryAttempts THEN "wait" ELSE "raise"

\* tenacity after a failed attempt: sleep and retry, or give up (RetryError)
AfterFailedAttempt(att) == IF att < RetryAttempts THEN "wait" ELSE "raise"

\* the processor resolved for a topic raises on this value: order_processor
\* compares total_amount with numbers; _default_processor catches everything
ProcessorRaises(t, v) == processors[t] = "order_processor" /\ v = "text"

\* ------------------------------------------- _process_message, its end
\* a slip: the increment is lost
ProcessMessageSuccess_Lost(st) == st

\* line 140: the success counter
ProcessMessageSuccess(st) == [st EXCEPT !.messages_processed = @ + 1]

\* a slip in the except clause: the message is also counted as processed
ProcessMessageExcept_CountsBoth(st) ==
  [st EXCEPT !.processing_errors = @ + 1, !.messages_processed = @ + 1]

\* line 150: the except clause counts the error ...
ProcessMessageExcept(st) == [st EXCEPT !.processing_errors = @ + 1]

\* a slip: the except clause ends with a bare raise
ProcessMessagePropagates_Reraise == TRUE

\* ... and does not raise again: nothing reaches _consume_messages
ProcessMessagePropagates == FALSE

\* a slip: the handler call sits outside the loop's inner try, the task ends
ConsumeAfterHandler_LeavesLoop == "done"

\* _consume_messages: after the handler call the async for takes the next
\* message, whether the call returned or raised
ConsumeAfterHandler == "next"

Returned(l, why) ==
  [l EXCEPT !.pc = ConsumeAfterHandler, !.att = 0, !.res = why, !.start = 0]

\* a slip: the trim is left out
TrackProcessingTime_NoTrim(w, d) == Append(w, d)

\* lines 133-138: the duration is appended and the window trimmed to its
\* last WindowCap entries
TrackProcessingTime(w, d) == LastN(Append(w, d), WindowCap)

\* _handle_processed_data appended the metric record and returned; the
\* duration joins the window, the success counter is incremented and
\* _consume_messages counts the message as consumed
FinishSuccess(t, l) ==
  /\ metrics_buffer' = Append(metrics_buffer, <<t, l.off>>)
  /\ processing_times' = TrackProcessingTime(processing_times, now - l.start)
  /\ stats' = ProcessMessageSuccess(stats)
  /\ consumed_count' = consumed_count + 1
  /\ loop' = [loop EXCEPT ![t] = Returned(l, "ok")]
  /\ completed' = completed + 1
  /\ since_boundary' = since_boundary + 1

\* a slip: the except clause logs without counting
FinishFailure_NotCounted(t, l, why) ==
  /\ consumed_count' = consumed_count + 1
  /\ loop' = [loop EXCEPT ![t] = Returned(l, why)]
  /\ completed' = completed + 1
  /\ UNCHANGED <<stats, metrics_buffer, processing_times, since_boundary>>

\* a slip: the metric record is appended before the sinks are called, a
\* failed message leaves its record in the buffer
FinishFailure_Recorded(t, l, why) ==
  /\ stats' = ProcessMessageExcept(stats)
  /\ metrics_buffer' = Append(metrics_buffer, <<t, l.off>>)
  /\ consumed_count' = consumed_count + 1
  /\ loop' = [loop EXCEPT ![t] = Returned(l, why)]
  /\ completed' = completed + 1
  /\ UNCHANGED <<processing_times, since_boundary>>

\* an exception reached the except clause of _process_message; had it been
\* raised again, _consume_messages would count an error, not a consumption
FinishFailure(t, l, why) ==
  /\ stats' = ProcessMessageExcept(stats)
  /\ consumed_count' = IF ProcessMessagePropagates THEN consumed_count
                                                   ELSE consumed_count + 1
  /\ loop' = [loop EXCEPT ![t] = Returned(l, why)]
  /\ completed' = completed + 1
  /\ UNCHANGED <<metrics_buffer, processing_times, since_boundary>>

Suspended(t, l) ==
  /\ loop' = [loop EXCEPT ![t] = l]
  /\ UNCHANGED <<stats, metrics_buffer, processing_times, consumed_count,
                 completed, since_boundary>>

\* ------------------------------------------ _handle_processed_data
\* the first attempt of a publish: it is sent, or the guard raises at once
\* and tenacity sleeps before the second attempt
FirstAttempt(l, usable, sending, waiting) ==
  [l EXCEPT !.pc = IF usable THEN sending ELSE waiting, !.att = 1]

\* lines 183-189 and what follows them
RouteKinesis(t, l) ==
  IF settings.enable_kinesis_output
  THEN Suspended(t, FirstAttempt(l, KinesisUsable, "kinesis_send",
                                 "kinesis_wait"))
  ELSE FinishSuccess(t, l)

\* lines 175-181 and what follows them
RouteKafka(t, l) ==
  IF settings.enable_kafka_output
  THEN Suspended(t, FirstAttempt(l, KafkaUsable, "kafka_send", "kafka_wait"))
  ELSE RouteKinesis(t, l)

\* a slip: the publish failure is logged and swallowed, the handler goes on
AfterKafkaFailure_Swallowed(t, l) == RouteKinesis(t, l)

\* what follows a failed publish to the broker: the exception leaves
\* _handle_processed_data, the stream sink is not called
AfterKafkaFailure(t, l) == FinishFailure(t, l, "kafka_fail")

\* --------------------------------------------------- delivery loops
\* a slip: the handler is started as a task of its own and not awaited
LoopReady_NotAwaited(l) == l.pc \notin {"none", "done"}

\* _consume_messages line 281: the handler is awaited inside the async for,
\* the loop takes a message only when it is not in a handler call
LoopReady(l) == l.pc = "next"

\* a slip: a message whose handling failed is handed to the handler again
NextOffset_FailedAgain(t) ==
  IF loop[t].res \in {"processor_raised", "kafka_fail", "kinesis_fail"}
  THEN delivered[t] ELSE delivered[t] + 1

\* the async for yields each message of the topic once, in offset order,
\* whatever the handler did with the one before
NextOffset(t) == delivered[t] + 1

\* the consumer yields the next message of topic t and the handler runs up
\* to its first suspension
Deliver(t, v) ==
  /\ LoopReady(loop[t])
  /\ TotalDelivered < MaxMsgs
  /\ delivered' = [delivered EXCEPT ![t] = NextOffset(t)]
  /\ invoked' = [invoked EXCEPT ![<<t, NextOffset(t)>>] = @ + 1]
  /\ LET l == [loop[t] EXCEPT !.off = NextOffset(t), !.pub = 0,
                              !.put = 0, !.res = "none", !.start = now]
     IN  IF ProcessorRaises(t, v)
         THEN FinishFailure(t, l, "processor_raised")
         ELSE RouteKafka(t, l)
  /\ UNCHANGED <<settings, callVars, extraVars, health, timeVars, kafkaVars, kinesis_is_running, metricsVars,
                 controlVars>>

\* producer.send_and_wait of attempt att returns or raises
KafkaSendDone(t, ok) ==
  /\ loop[t].pc = "kafka_send"
  /\ IF ok
     THEN RouteKinesis(t, [loop[t] EXCEPT !.pub = @ + 1])
     ELSE IF AfterFailedAttempt(loop[t].att) = "wait"
          THEN Suspended(t, [loop[t] EXCEPT !.pc = "kafka_wait"])
          ELSE AfterKafkaFailure(t, loop[t])
  /\ UNCHANGED <<settings, callVars, extraVars, health, timeVars, kafkaVars, kinesis_is_running, delivered, invoked,
                 metricsVars, controlVars>>

\* tenacity's sleep ends and the next attempt starts
KafkaBackoffDone(t) ==
  /\ loop[t].pc = "kafka_wait"
  /\ LET l == [loop[t] EXCEPT !.att = @ + 1]
     IN  IF KafkaUsable
         THEN Suspended(t, [l EXCEPT !.pc = "kafka_send"])
         ELSE IF AfterFailedAttempt(l.att) = "wait"
              THEN Suspended(t, l)
              ELSE AfterKafkaFailure(t, l)
  /\ UNCHANGED <<settings, callVars, extraVars, health, timeVars, kafkaVars, kinesis_is_running, delivered, invoked,
                 metricsVars, controlVars>>

\* client.put_record of attempt att returns or raises
KinesisPutDone(t, ok) ==
  /\ loop[t].pc = "kinesis_send"
  /\ IF ok
     THEN FinishSuccess(t, [loop[t] EXCEPT !.put = @ + 1])
     ELSE IF AfterFailedAttempt(loop[t].att) = "wait"
          THEN Suspended(t, [loop[t] EXCEPT !.pc = "kinesis_wait"])
          ELSE FinishFailure(t, loop[t], "kinesis_fail")
  /\ UNCHANGED <<settings, callVars, extraVars, health, timeVars, kafkaVars, kinesis_is_running, delivered, invoked,
                 metricsVars, controlVars>>

KinesisBackoffDone(t) ==
  /\ loop[t].pc = "kinesis_wait"
  /\ LET l == [loop[t] EXCEPT !.att = @ + 1]
     IN  IF KinesisUsable
         THEN Suspended(t, [l EXCEPT !.pc = "kinesis_send"])
         ELSE IF AfterFailedAttempt(l.att) = "wait"
              THEN Suspended(t, l)
              ELSE FinishFailure(t, l, "kinesis_fail")
  /\ UNCHANGED <<settings, callVars, extraVars, health, timeVars, kafkaVars, kinesis_is_running, delivered, invoked,
                 metricsVars, controlVars>>

\* the consumer's iteration raises: "Consumer error", the task ends
ConsumerError(t) ==
  /\ loop[t].pc = "next"
  /\ loop' = [loop EXCEPT ![t].pc = "done", ![t].res = "consumer_error"]
  /\ UNCHANGED <<settings, callVars, extraVars, health, timeVars, kafkaVars, consumed_count,
                 kinesis_is_running, stats, metrics_buffer, processing_times,
                 completed, since_boundary, delivered, invoked, metricsVars,
                 controlVars>>

\* --------------------------------------------------- metrics task
\* a slip: the error counter is not reset
ResetCounters_ErrorsKept(st) == [st EXCEPT !.messages_processed = 0]

\* lines 380-383
ResetCounters(st) ==
  [st EXCEPT !.messages_processed = 0, !.processing_errors = 0]

\* a slip: the clear is left out
ClearBuffer_Missing(buf) == buf

\* line 416
ClearBuffer(buf) == <<>>

\* a slip: the sum of the window is not divided
AvgProcessingTime_Sum(w, prev) ==
  IF w # <<>> THEN Frac(SumSeq(w), 1) ELSE prev

\* lines 360-362: the mean of the window, or the previous value
AvgProcessingTime(w, prev) ==
  IF w # <<>> THEN Frac(SumSeq(w), Len(w)) ELSE prev

\* line 364
MessagesPerSecond(count, time_diff) ==
  IF time_diff > 0 THEN Frac(count, time_diff) ELSE Zero

\* the loop test of line 352 after a cycle
CycleEnd(m) ==
  [m EXCEPT !.pc = IF is_running THEN "sleep" ELSE "done",
            !.att = 0, !.sent = 0, !.cur = 0]

\* attempt n of the batch publish starts: the value handed to the producer
\* holds the buffer as it is now; with the service stopped the guard raises
FlushAttempt(m, n) ==
  IF KafkaUsable
  THEN [m EXCEPT !.pc = "send", !.att = n, !.sent = Len(metrics_buffer)]
  ELSE [m EXCEPT !.pc = "wait", !.att = n, !.sent = 0]

\* the cycle is suspended in the batch publish
FlushSuspended(m) ==
  /\ mtask' = m
  /\ UNCHANGED <<stats, completed, last_metrics_flush, metrics_buffer,
                 emitted, lost>>

\* lines 380-383, cur being the current_time the cycle read at line 357
CycleReset(cur) ==
  /\ mtask' = CycleEnd(mtask)
  /\ stats' = ResetCounters(stats)
  /\ completed' = 0
  /\ last_metrics_flush' = cur

\* a slip: the clear sits in a finally clause, the buffer is emptied
\* whether or not the batch went out
CycleNoClear_ClearsAnyway(cur) ==
  /\ CycleReset(cur)
  /\ metrics_buffer' = <<>>
  /\ lost' = lost \cup SeqToSet(metrics_buffer)
  /\ UNCHANGED emitted

\* the cycle goes on after _flush_metrics_buffer returned without clearing
\* (no flush was due, or the publish failed and the exception was logged)
CycleNoClear(cur) ==
  /\ CycleReset(cur)
  /\ UNCHANGED <<metrics_buffer, emitted, lost>>

\* the buffer is cleared; its first n records are the batch that went out
CycleClear(n, cur) ==
  LET published == SeqToSet(SubSeq(metrics_buffer, 1, n))
  IN  /\ CycleReset(cur)
      /\ metrics_buffer' = ClearBuffer(metrics_buffer)
      /\ emitted' = [r \in RecordIds |->
                       IF r \in published THEN emitted[r] + 1 ELSE emitted[r]]
      /\ lost' = lost \cup (SeqToSet(metrics_buffer) \ published)

\* line 377: the flush is due
FlushDue == Len(metrics_buffer) > metrics_buffer_size

\* asyncio.sleep returns after dt: the cycle reads the clock, computes the
\* two statistics and runs up to its next suspension
MetricsCycle(dt) ==
  /\ mtask.pc = "sleep"
  /\ now + dt <= MaxTime
  /\ now' = now + dt
  /\ avg_processing_time' =
       AvgProcessingTime(processing_times, avg_processing_time)
  /\ messages_per_second' =
       MessagesPerSecond(stats.messages_processed,
                         (now + dt) - last_metrics_flush)
  /\ since_boundary' = 0
  /\ IF FlushDue
     THEN IF settings.enable_metrics_to_kafka
          THEN FlushSuspended([FlushAttempt(mtask, 1) EXCEPT !.cur = now + dt])
          ELSE CycleClear(0, now + dt)
     ELSE CycleNoClear(now + dt)
  /\ UNCHANGED <<settings, callVars, extraVars, health, last_reset, kafkaVars, consumed_count,
                 kinesis_is_running, processing_times, loop, delivered, invoked,
                 controlVars>>

\* the batch publish returns or raises
MetricsSendDone(ok) ==
  /\ mtask.pc = "send"
  /\ IF ok
     THEN CycleClear(mtask.sent, mtask.cur)
     ELSE IF AfterFailedAttempt(mtask.att) = "wait"
          THEN FlushSuspended([mtask EXCEPT !.pc = "wait", !.sent = 0])
          ELSE CycleNoClear(mtask.cur)
  /\ UNCHANGED <<settings, callVars, extraVars, health, now, last_reset, messages_per_second,
                 avg_processing_time, since_boundary, kafkaVars,
                 consumed_count, kinesis_is_running, processing_times, loop,
                 delivered, invoked, controlVars>>

\* tenacity's sleep ends and the next attempt starts
MetricsBackoffDone ==
  /\ mtask.pc = "wait"
  /\ IF KafkaUsable \/ AfterFailedAttempt(mtask.att + 1) = "wait"
     THEN FlushSuspended(FlushAttempt(mtask, mtask.att + 1))
     ELSE CycleNoClear(mtask.cur)
  /\ UNCHANGED <<settings, callVars, extraVars, health, now, last_reset, messages_per_second,
                 avg_processing_time, since_boundary, kafkaVars,
                 consumed_count, kinesis_is_running, processing_times, loop,
                 delivered, invoked, controlVars>>

\* --------------------------------------------- start_processing
IdleStarter == [pc |-> "idle", idx |-> 0]

NewMetricsTask == [pc |-> "sleep", att |-> 0, sent |-> 0, cur |-> 0]

\* lines 330-332 as registrations, in the order they are made
DefaultRegistrations ==
  <<<<"orders", "order_processor">>, <<"users", "user_processor">>,
    <<"events", "event_processor">>>>

\* _register_default_processors
RegisterDefaults(ps) ==
  [t \in AllTopics |->
     CASE t = "orders" -> "order_processor"
       [] t = "users"  -> "user_processor"
       [] t = "events" -> "event_processor"
       [] OTHER        -> ps[t]]

\* subscribe_to_topic returns at once for a topic of self.consumers: the
\* first topic from position i on that needs a consumer
NextToSubscribe(i, cons) ==
  LET S == {j \in i..Len(TopicsToConsume) : TopicsToConsume[j] \notin cons}
  IN  IF S = {} THEN Len(TopicsToConsume) + 1
                ELSE CHOOSE j \in S : \A k \in S : j <= k

\* _start_consumers from topic i on, up to the next consumer.start(); when
\* no topic is left, lines 55-63: the metrics task is created and the
\* pipeline is running.  m, run: the task list and is_running as they are;
\* a: the admin request the call serves ("idle": the task of lifespan)
StartFrom(i, cons, m, run, a) ==
  LET j == NextToSubscribe(i, cons)
  IN  IF j <= Len(TopicsToConsume)
      THEN /\ starter' = [pc |-> "subscribing", idx |-> j]
           /\ mtask' = m
           /\ is_running' = run
           /\ admin' = a
      ELSE /\ starter' = IdleStarter
           /\ mtask' = NewMetricsTask
           /\ is_running' = TRUE
           /\ admin' = "idle"

\* start_processing is entered
StartBegin(m, run, a) ==
  /\ processors' = RegisterDefaults(processors)
  /\ registered' = registered \o DefaultRegistrations
  /\ stop_returned' = FALSE
  /\ StartFrom(1, consumers, m, run, a)

\* the task lifespan() created runs start_processing
StartTaskRuns ==
  /\ starter.pc = "created"
  /\ StartBegin(mtask, is_running, admin)
  /\ UNCHANGED <<settings, callVars, extraVars, health, timeVars, kafkaVars, kinesis_is_running,
                 handlerVars, delivered, invoked, emitted, lost,
                 stopper, life, requests>>

\* consumer.start() of subscribe_to_topic returns or raises
SubscribeDone(ok) ==
  /\ starter.pc = "subscribing"
  /\ LET t == TopicsToConsume[starter.idx]
     IN  IF ok
         THEN /\ consumers' = consumers \cup {t}
              /\ loop' = [loop EXCEPT ![t] = [NoTask EXCEPT !.pc = "next"]]
              /\ StartFrom(starter.idx + 1, consumers \cup {t}, mtask,
                           is_running, admin)
         ELSE /\ starter' = IdleStarter
              /\ admin' = "idle"
              /\ UNCHANGED <<consumers, loop, mtask, is_running>>
  /\ UNCHANGED <<settings, callVars, extraVars, health, timeVars, kafka_is_running, producer, consumed_count,
                 kinesis_is_running, stats, metrics_buffer, processing_times,
                 completed, since_boundary, delivered, invoked, emitted, lost, stopper,
                 life, requests, processors, registered, stop_returned>>

\* ------------------------------------------------ StreamProcessor.stop
\* a slip: the tasks are gathered without being cancelled
CancelProcessingTasks_NotCancelled(m) == m

\* lines 76-77: every task of _processing_tasks is cancelled; a cancelled
\* task ends at its suspension point (CancelledError leaves the flush and
\* breaks the loop of _collect_metrics)
CancelProcessingTasks(m) ==
  IF m.pc = "none" THEN m
  ELSE [m EXCEPT !.pc = "done", !.att = 0, !.sent = 0, !.cur = 0]

\* stop() is entered by `who'; with no task to gather it returns at once
\* (lines 80-82)
StopBegin(who) ==
  IF mtask.pc = "none"
  THEN /\ mtask' = NoMetricsTask
       /\ is_running' = FALSE
       /\ stop_returned' = TRUE
       /\ stopper' = "none"
  ELSE /\ mtask' = CancelProcessingTasks(mtask)
       /\ stopper' = who
       /\ UNCHANGED <<is_running, stop_returned>>

\* gather returns to stop() once every task of the list has ended: lines
\* 80-82; a restart request goes on with start_processing
StopDone ==
  /\ stopper # "none"
  /\ mtask.pc = "done"
  /\ stopper' = "none"
  /\ IF stopper = "restart"
     THEN /\ StartBegin(NoMetricsTask, FALSE, admin)
          /\ life' = life
     ELSE /\ mtask' = NoMetricsTask
          /\ is_running' = FALSE
          /\ stop_returned' = TRUE
          /\ life' = IF stopper = "lifespan" THEN "down" ELSE life
          /\ admin' = "idle"
          /\ UNCHANGED <<starter, processors, registered>>
  /\ UNCHANGED <<settings, callVars, extraVars, health, timeVars, kafkaVars, kinesis_is_running,
                 handlerVars, delivered, invoked, emitted, lost,
                 requests>>

\* ------------------------------------------------ admin control_service
CanControl ==
  /\ life = "serving"
  /\ admin = "idle"
  /\ starter.pc = "idle"
  /\ stopper = "none"
  /\ requests < MaxControl

\* action "start"
AdminStart ==
  /\ CanControl
  /\ requests' = requests + 1
  /\ IF ~is_running
     THEN /\ StartBegin(mtask, is_running, "start")
          /\ UNCHANGED stopper
     ELSE UNCHANGED <<starter, stopper, admin, stop_returned, is_running,
                      processors, registered, mtask>>
  /\ UNCHANGED <<settings, callVars, extraVars, health, timeVars, kafkaVars, kinesis_is_running,
                 handlerVars, delivered, invoked, emitted, lost, life>>

\* action "stop"
AdminStop ==
  /\ CanControl
  /\ requests' = requests + 1
  /\ IF is_running
     THEN /\ StopBegin("stop")
          /\ admin' = IF mtask.pc = "none" THEN "idle" ELSE "stop"
     ELSE UNCHANGED <<stopper, admin, stop_returned, is_running, mtask>>
  /\ UNCHANGED <<settings, callVars, extraVars, health, timeVars, kafkaVars, kinesis_is_running,
                 handlerVars, delivered, invoked, emitted, lost, life,
                 starter, processors, registered>>

\* action "restart"
AdminRestart ==
  /\ CanControl
  /\ requests' = requests + 1
  /\ IF is_running /\ mtask.pc # "none"
     THEN /\ StopBegin("restart")
          /\ admin' = "restart"
          /\ UNCHANGED <<starter, processors, registered>>
     ELSE /\ StartBegin(IF is_running THEN NoMetricsTask ELSE mtask, FALSE,
                        "restart")
          /\ UNCHANGED stopper
  /\ UNCHANGED <<settings, callVars, extraVars, health, timeVars, kafkaVars, kinesis_is_running,
                 handlerVars, delivered, invoked, emitted, lost, life>>

\* ------------------------------------------------------ lifespan
\* lines 48-57: both services start and the start_processing task is
\* created; when kafka_service.start() raises, the finally clause runs
LifespanStartup(ok) ==
  /\ life = "init"
  /\ IF ok
     THEN /\ producer' = "started"
          /\ kafka_is_running' = TRUE
          /\ kinesis_is_running' = TRUE
          /\ starter' = [pc |-> "created", idx |-> 0]
          /\ life' = "serving"
     ELSE /\ producer' = "stopped"
          /\ life' = "stopping_producer"
          /\ UNCHANGED <<kafka_is_running, kinesis_is_running, starter>>
  /\ UNCHANGED <<settings, callVars, extraVars, health, timeVars, consumers, handlerVars, delivered, invoked, metricsVars, stopper, admin,
                 requests, stop_returned, is_running, processors, registered>>

\* KafkaService.stop lines 77-78: every consumer task is cancelled; a
\* cancelled task ends at its suspension point ("Consumer task cancelled"),
\* the message it was handling reaches neither counter
CancelConsumerTasks(ls) ==
  [t \in Topics |->
     IF ls[t].pc \in {"none", "done"} THEN ls[t]
     ELSE [ls[t] EXCEPT !.pc = "done", !.att = 0,
                        !.res = IF ls[t].pc = "next" THEN @ ELSE "cancelled"]]

\* the finally clause of lifespan enters kafka_service.stop()
ShutdownBegin ==
  /\ life = "serving"
  /\ admin = "idle"
  /\ starter.pc = "idle"
  /\ stopper = "none"
  /\ loop' = CancelConsumerTasks(loop)
  /\ life' = "stopping_consumers"
  /\ UNCHANGED <<settings, callVars, extraVars, health, timeVars, kafkaVars, consumed_count,
                 kinesis_is_running, stats, completed, since_boundary,
                 metrics_buffer, processing_times, delivered, invoked, metricsVars,
                 starter, stopper, admin, requests, stop_returned, is_running,
                 processors, registered>>

\* lines 80-90: the tasks are gathered, the consumers stopped and dropped,
\* producer.stop() is awaited
ShutdownConsumers ==
  /\ life = "stopping_consumers"
  /\ consumers' = {}
  /\ producer' = "stopped"
  /\ life' = "stopping_producer"
  /\ UNCHANGED <<settings, callVars, extraVars, health, timeVars, kafka_is_running, kinesis_is_running,
                 handlerVars, delivered, invoked, metricsVars,
                 starter, stopper, admin, requests, stop_returned, is_running,
                 processors, registered>>

\* kafka_service.stop() line 96, kinesis_service.stop() (no suspension: it
\* has no consumer task) and the entry of stream_processor.stop()
ShutdownServices ==
  /\ life = "stopping_producer"
  /\ kafka_is_running' = FALSE
  /\ kinesis_is_running' = FALSE
  /\ StopBegin("lifespan")
  /\ life' = IF mtask.pc = "none" THEN "down" ELSE "stopping_processor"
  /\ UNCHANGED <<settings, callVars, extraVars, health, timeVars, producer, consumers, handlerVars, delivered, invoked, emitted, lost,
                 starter, admin, requests, processors, registered>>

\* ------------------------------------------ StreamProcessor.is_healthy
\* a slip: the ceiling itself is still healthy
HealthVerdict_AtCeiling(run, kafka_healthy, kinesis_healthy, recent_errors) ==
  /\ run
  /\ kafka_healthy
  /\ kinesis_healthy
  /\ recent_errors <= max_allowed_processing_errors

\* lines 461-466
HealthVerdict(run, kafka_healthy, kinesis_healthy, recent_errors) ==
  /\ run
  /\ kafka_healthy
  /\ kinesis_healthy
  /\ recent_errors < max_allowed_processing_errors

\* lines 459-466: the counter and the flag are read and the call returns
HealthReturns(h) ==
  [h EXCEPT !.pc = "returned",
            !.result = HealthVerdict(is_running, h.kafka_healthy,
                                     h.kinesis_healthy,
                                     stats.processing_errors)]

\* line 456, KinesisService.is_healthy: False at once when the service is
\* not running, else the call is suspended in list_streams
KinesisProbe(h) ==
  IF KinesisUsable THEN [h EXCEPT !.pc = "kinesis_probe"]
  ELSE HealthReturns([h EXCEPT !.kinesis_healthy = FALSE])

\* line 455, KafkaService.is_healthy: False at once when the service is not
\* running or has no producer, else the call is suspended in check_version
KafkaProbe(h) ==
  IF kafka_is_running /\ producer # "none"
  THEN [h EXCEPT !.pc = "kafka_probe"]
  ELSE KinesisProbe([h EXCEPT !.kafka_healthy = FALSE])

\* is_healthy() is called
HealthCall ==
  /\ health.pc \in {"idle", "returned"}
  /\ life \in {"serving", "stopping_consumers", "stopping_producer",
               "stopping_processor"}
  /\ health' = KafkaProbe(NoProbe)
  /\ UNCHANGED pipelineVars

\* check_version returns (ok) or raises: the probe reports True or False
KafkaProbeDone(ok) ==
  /\ health.pc = "kafka_probe"
  /\ health' = KinesisProbe([health EXCEPT !.kafka_healthy = ok])
  /\ UNCHANGED pipelineVars

\* list_streams returns (ok) or raises
KinesisProbeDone(ok) ==
  /\ health.pc = "kinesis_probe"
  /\ health' = HealthReturns([health EXCEPT !.kinesis_healthy = ok])
  /\ UNCHANGED pipelineVars

\* ------------------------------------------------------ message data
\* JSON values as the handler meets them: a string, a number, null, and a
\* time read from the clock (datetime.now().isoformat())
Str(s) == [str |-> s]
Num(n) == [num |-> n]

\* a JSON array and a JSON object nested in a value
List(s) == [list |-> s]
Obj(d) == [dict |-> d]

\* isinstance(x, list)
IsList(x) == DOMAIN x = {"list"}

\* the float n + h / 100
Dec(n, h) == [num |-> n, hundredths |-> h]
Time(t) == [time |-> t]
None == [none |-> TRUE]

IsStr(x) == DOMAIN x = {"str"}

\* isinstance(x, (int, float))
IsNumber(x) == "num" \in DOMAIN x

\* a number in hundredths
Hundredths(x) ==
  x.num * 100 + (IF "hundredths" \in DOMAIN x THEN x.hundredths ELSE 0)

\* bool(x): None, "" and 0 are false
Truthy(x) ==
  CASE IsStr(x)    -> x.str # ""
    [] IsNumber(x) -> Hundredths(x) # 0
    [] OTHER       -> DOMAIN x # {"none"}

\* str(x)
StrOf(x) == IF IsStr(x) THEN x ELSE [text_of |-> x]

\* a dict is a function from its keys
EmptyDict == [k \in {} |-> None]

Has(d, k) == k \in DOMAIN d

\* d.update(e)
Update(d, e) ==
  [k \in DOMAIN d \cup DOMAIN e |-> IF k \in DOMAIN e THEN e[k] ELSE d[k]]

\* d[k] = v
Put(d, k, v) == Update(d, [x \in {k} |-> v])

\* the event types and amounts messages carry: known and unknown types in
\* both cases, a null type; amounts of every category, one sent as text
EventTypes == {Str("purchase"), Str("PURCHASE"), Str("heartbeat"), None}
Amounts == {Num(5), Num(10), Num(500), Num(5000), Num(10000), Str("12.50")}

Absent == [absent |-> TRUE]

\* the optional fields of an event, each present or missing
EventChoices ==
  [event_type : EventTypes \cup {Absent}, amount : Amounts \cup {Absent},
   user_id : {Str("u1"), Absent}, timestamp : {Str("t0"), Absent},
   id : {Str("42"), Absent}]

\* orders: total_amount as a number or as text
OrderChoices ==
  [total_amount : {Num(50), Str("12.50")}, id : {Str("42"), Absent}]

Present(c) == [k \in {f \in DOMAIN c : c[f] # Absent} |-> c[k]]

Values == {Present(c) : c \in EventChoices \cup OrderChoices}

\* partition, offset and key of a message (message.key is None without one)
MessageHeads ==
  {[partition |-> Num(0), offset |-> Num(7), key |-> None],
   [partition |-> Num(1), offset |-> Num(0), key |-> Str("k1")]}

\* message_data of _consume_messages lines 271-279
MessageData(t, h, v) ==
  [topic |-> t, partition |-> h.partition, offset |-> h.offset,
   key |-> h.key, value |-> v]

Messages == {MessageData(t, h, v) : t \in AllTopics, h \in MessageHeads,
                                    v \in Values}

\* quantities of order items: present, missing, sent as text
Items ==
  {List(<<>>),
   List(<<Obj([quantity |-> Num(2)]), Obj([quantity |-> Num(1)])>>),
   List(<<Obj([quantity |-> Num(2)]), Obj(EmptyDict)>>),
   List(<<Obj([sku |-> Str("a")]), Obj([quantity |-> Num(4)]),
          Obj([quantity |-> Num(0)])>>),
   List(<<Obj([quantity |-> Str("2")])>>),
   List(<<Str("sku-1")>>),
   Str("none")}

\* orders with their items and total
ItemChoices ==
  [items : Items \cup {Absent},
   total_amount : {Num(1500), Num(50), Dec(9999, 99), Num(10000),
                   Str("12.50"), Absent}]

OrderMessages ==
  {MessageData("orders", h, Present(c)) :
     h \in MessageHeads, c \in ItemChoices}

\* messages that tell the topics apart and nothing else
RegistryMessages ==
  {MessageData(t, h, EmptyDict) : t \in AllTopics, h \in MessageHeads}

\* callables handed to register_processor by the application's user; what
\* they compute is theirs: here they sign the copy they return
CustomProcessors == {"custom_a", "custom_b"}

ProcessorNames ==
  CustomProcessors \cup
    {"order_processor", "user_processor", "event_processor",
     "default_processor"}

\* uuid.uuid4() of put_record line 92
Uuids == {1, 2}

\* ------------------------------------------------- _default_processor
\* the strings of the model that have a cased letter in upper case, each
\* with what str.lower() makes of it
LowerCased ==
  [USER_LOGIN |-> "user_login", User_Login |-> "user_login",
   USER_LOGOUT |-> "user_logout", User_Logout |-> "user_logout",
   PASSWORD_RESET |-> "password_reset", Password_Reset |-> "password_reset",
   PURCHASE |-> "purchase", Purchase |-> "purchase",
   REFUND |-> "refund", Refund |-> "refund",
   PAYMENT |-> "payment", Payment |-> "payment",
   PAGE_VIEW |-> "page_view", Page_View |-> "page_view",
   CLICK |-> "click", Click |-> "click",
   SEARCH |-> "search", Search |-> "search",
   ERROR |-> "error", Error |-> "error",
   WARNING |-> "warning", Warning |-> "warning",
   HEARTBEAT |-> "heartbeat", Purchases |-> "purchases",
   PageView |-> "pageview"]

\* a slip: the event type is looked up as it was sent
Lower_AsSent(s) == s

\* str.lower() on the strings of the model
Lower(s) == IF s \in DOMAIN LowerCased THEN LowerCased[s] ELSE s

\* event types as text: the keys of the table of _categorize_event, their
\* spellings in upper case and capitalised, and strings the table lacks
EventTexts ==
  {"user_login", "user_logout", "password_reset", "purchase", "refund",
   "payment", "page_view", "click", "search", "error", "warning",
   "heartbeat", "purchases", "pageview", "login", ""}
  \cup DOMAIN LowerCased

\* events on a topic no code registers a processor for, on a subscribed
\* topic without one, and on "orders"
CategoryMessages ==
  {MessageData(t, h, Present(c)) :
     t \in {"unknown_topic", "misc", "orders"}, h \in MessageHeads,
     c \in [event_type : {Str(e) : e \in EventTexts} \cup {None, Absent}]}

\* _categorize_event
CategorizeEvent(event_type) ==
  LET e == Lower(event_type.str)
  IN  Str(CASE e \in {"user_login", "user_logout", "password_reset"}
                 -> "authentication"
            [] e \in {"purchase", "refund", "payment"} -> "transaction"
            [] e \in {"page_view", "click", "search"} -> "analytics"
            [] e \in {"error", "warning"} -> "system"
            [] OTHER -> "other")

\* a slip: the comparisons include the boundary
CategorizeAmount_Inclusive(amount) ==
  Str(IF Hundredths(amount) <= 10 * 100 THEN "micro"
      ELSE IF Hundredths(amount) <= 100 * 100 THEN "small"
      ELSE IF Hundredths(amount) <= 1000 * 100 THEN "medium"
      ELSE IF Hundredths(amount) <= 10000 * 100 THEN "large"
      ELSE "enterprise")

\* _categorize_amount
CategorizeAmount(amount) ==
  Str(IF Hundredths(amount) < 10 * 100 THEN "micro"
      ELSE IF Hundredths(amount) < 100 * 100 THEN "small"
      ELSE IF Hundredths(amount) < 1000 * 100 THEN "medium"
      ELSE IF Hundredths(amount) < 10000 * 100 THEN "large"
      ELSE "enterprise")

\* the amounts _categorize_amount is called with: every hundredth within
\* BoundaryReach of a threshold, zero and a negative amount
Thresholds == {10, 100, 1000, 10000}

AmountSamples ==
  {Num(0), Num(-1), Dec(-1, 50)} \cup
  {IF h % 100 = 0 THEN Num(h \div 100) ELSE Dec(h \div 100, h % 100) :
     h \in UNION {(b * 100 - BoundaryReach)..(b * 100 + BoundaryReach) :
                    b \in Thresholds}}

\* _categorize_amount(a) is called; the call before it is remembered
CategorizeAmountCall(a) ==
  /\ bucketed' = LastN(Append(bucketed,
                              [amount |-> a, bucket |-> CategorizeAmount(a)]),
                       2)
  /\ UNCHANGED pipelineVarsButBucketed
  /\ UNCHANGED health

\* _get_session_info at time t
SessionInfo(user_id, t) ==
  [session_id |-> [session_of |-> user_id, at |-> t],
   session_start |-> Time(t), device_type |-> Str("web"),
   location |-> Str("unknown")]

\* lines 210-232, when nothing raises
Enrich(data, t) ==
  LET p1 == Update(data, [processor_id |-> Str("default"),
                          enriched_at |-> Time(t),
                          processing_version |-> Str("1.0")])
      p2 == IF Has(p1, "timestamp") THEN p1
            ELSE Put(p1, "timestamp", Time(t))
      p3 == IF Has(p2, "event_type")
            THEN Put(p2, "event_category", CategorizeEvent(p2["event_type"]))
            ELSE p2
      p4 == IF Has(p3, "amount") /\ IsNumber(p3["amount"])
            THEN Put(p3, "amount_category", CategorizeAmount(p3["amount"]))
            ELSE p3
  IN  IF Has(p4, "user_id")
      THEN Put(p4, "session_info", SessionInfo(p4["user_id"], t))
      ELSE p4

\* a slip: the isinstance test of line 225 is missing, an amount sent as
\* text raises in _categorize_amount
EnrichRaises_AmountToo(data) ==
  \/ Has(data, "event_type") /\ ~IsStr(data["event_type"])
  \/ Has(data, "amount") /\ ~IsNumber(data["amount"])

\* the try block raises: event_type.lower() of line 254 on a value that is
\* not a string
EnrichRaises(data) == Has(data, "event_type") /\ ~IsStr(data["event_type"])

\* a slip: the timestamp is set whether or not the value has one
DefaultProcessor_Restamps(data, t) ==
  IF EnrichRaises(data) THEN data
  ELSE Put(Enrich(data, t), "timestamp", Time(t))

\* _default_processor: the except clause returns the value it was given
DefaultProcessor(data, t) ==
  IF EnrichRaises(data) THEN data ELSE Enrich(data, t)

\* --------------------------------------------- the topic processors
\* a slip: an item without quantity counts as one piece
Quantity_DefaultOne(item) ==
  IF Has(item.dict, "quantity") THEN item.dict["quantity"].num ELSE 1

\* item.get("quantity", 0) of line 289
Quantity(item) ==
  IF Has(item.dict, "quantity") THEN item.dict["quantity"].num ELSE 0

\* line 289 raises: an item that is no object has no get(), a quantity
\* that is no number cannot be added
SumRaises(items) ==
  \E i \in 1..Len(items) :
    \/ DOMAIN items[i] # {"dict"}
    \/ Has(items[i].dict, "quantity") /\ ~IsNumber(items[i].dict["quantity"])

\* order_processor raises: in the sum of line 289, or in _categorize_amount
\* comparing text with a number
OrderProcessorRaises(data) ==
  \/ Has(data, "items") /\ IsList(data["items"]) /\ SumRaises(data["items"].list)
  \/ Has(data, "total_amount") /\ ~IsNumber(data["total_amount"])

\* order_processor, lines 284-296
OrderProcessor(data) ==
  LET p1 == IF Has(data, "items") /\ IsList(data["items"])
            THEN LET items == data["items"].list
                 IN  Update(data,
                       [item_count |-> Num(Len(items)),
                        total_quantity |->
                          Num(SumSeq([i \in 1..Len(items) |->
                                        Quantity(items[i])]))])
            ELSE data
      p2 == IF Has(p1, "total_amount")
            THEN Put(p1, "order_size_category",
                     CategorizeAmount(p1["total_amount"]))
            ELSE p1
  IN  Put(p2, "processed_by", Str("order_processor"))

\* user_processor on a value without email; the segment depends on
\* hash(user_id) alone
UserProcessor(data) ==
  LET p == IF Has(data, "user_id")
           THEN Put(data, "user_segment", [segment_of |-> data["user_id"]])
           ELSE data
  IN  Put(p, "processed_by", Str("user_processor"))

\* event_processor on a value without ip_address
EventProcessor(data, t) ==
  Update(data, [event_id |-> [evt |-> t], processing_latency |-> Num(0),
                processed_by |-> Str("event_processor")])

\* the call self._processors[topic](value) or self._default_processor(value)
ProcessorResult(p, data, t) ==
  CASE p = "default_processor" ->
         [raised |-> FALSE, out |-> DefaultProcessor(data, t)]
    [] p = "order_processor" ->
         IF OrderProcessorRaises(data)
         THEN [raised |-> TRUE, out |-> data]
         ELSE [raised |-> FALSE, out |-> OrderProcessor(data)]
    [] p = "user_processor" ->
         [raised |-> FALSE, out |-> UserProcessor(data)]
    [] p = "event_processor" ->
         [raised |-> FALSE, out |-> EventProcessor(data, t)]
    [] p \in CustomProcessors ->
         [raised |-> FALSE, out |-> Put(data, "processed_by", Str(p))]
    [] OTHER -> [raised |-> TRUE, out |-> data]

\* ------------------------------------------------- the processor registry
\* a slip: an unregistered topic is looked up all the same
Resolve_NoDefault(ps, t) == ps[t]

\* _process_message lines 124-127: the processor of the topic if one is
\* registered, the default processor otherwise
Resolve(ps, t) ==
  IF t \in DOMAIN ps /\ ps[t] # "none" THEN ps[t] ELSE "default_processor"

\* a slip: setdefault, the first registration of a topic is kept
RegisterProcessor_KeepsFirst(ps, t, p) ==
  IF ps[t] # "none" THEN ps ELSE [ps EXCEPT ![t] = p]

\* register_processor line 90
RegisterProcessor(ps, t, p) == [ps EXCEPT ![t] = p]

\* the processor the registrations h name last for topic t
LastRegistered(h, t) ==
  LET S == {i \in 1..Len(h) : h[i][1] = t}
  IN  IF S = {} THEN "none"
      ELSE h[CHOOSE i \in S : \A j \in S : j <= i][2]

\* register_processor(t, p)
RegisterProcessorCall(t, p) ==
  /\ Len(registered) < MaxRegistrations
  /\ handled = NoCall
  /\ processors' = RegisterProcessor(processors, t, p)
  /\ registered' = Append(registered, <<t, p>>)
  /\ UNCHANGED <<settings, callVars, extraVars, health, timeVars, kafkaVars,
                 kinesis_is_running, handlerVars, delivered, invoked,
                 metricsVars, starter, stopper, life, admin, requests,
                 stop_returned, is_running>>

\* ------------------------------------------- _handle_processed_data
\* a slip: the offset is written where the partition belongs
Stamp_PartitionLost(processed, m, t) ==
  Update(processed,
         [processed_at |-> Time(t), original_topic |-> Str(m.topic),
          original_offset |-> m.offset, original_partition |-> m.offset])

\* lines 167-172
Stamp(processed, m, t) ==
  Update(processed,
         [processed_at |-> Time(t), original_topic |-> Str(m.topic),
          original_offset |-> m.offset, original_partition |-> m.partition])

\* f"{original_topic}_processed" and f"{original_topic}-processed"
OutputTopic(t) == [topic |-> t, suffix |-> "_processed"]
StreamName(t) == [topic |-> t, suffix |-> "-processed"]

\* produce_message lines 117-118, put_record lines 87-88: the dict passed
\* in gets a timestamp when it has none
WithTimestamp(d, t) ==
  IF Has(d, "timestamp") THEN d ELSE Put(d, "timestamp", Time(t))

\* lines 176-181
KafkaCall(m, payload, t) ==
  [sink |-> "kafka", dest |-> OutputTopic(m.topic),
   data |-> WithTimestamp(payload, t), key |-> m.key]

\* line 188 and put_record lines 91-92: the key of the message, else the
\* text of the payload's id, else a fresh uuid
KinesisPartitionKey(m, payload, u) ==
  LET k == IF Truthy(m.key) THEN m.key
           ELSE StrOf(IF Has(payload, "id") THEN payload["id"] ELSE Str(""))
  IN  IF Truthy(k) THEN k ELSE [uuid |-> u]

\* lines 184-189
KinesisCall(m, payload, t, u) ==
  [sink |-> "kinesis", dest |-> StreamName(m.topic),
   data |-> WithTimestamp(payload, t),
   key |-> KinesisPartitionKey(m, payload, u)]

\* what _process_message(m) comes to, from its call to its return, the
\* publish calls it makes ending as kafka_ok and kinesis_ok say (after
\* their retries)
ProcessMessage(m, kafka_ok, kinesis_ok, u) ==
  /\ LET p == Resolve(processors, m.topic)
         r == ProcessorResult(p, m.value, now)
         stamped == Stamp(r.out, m, now)
         to_kafka == settings.enable_kafka_output
         kafka_failed == to_kafka /\ ~kafka_ok
         after_kafka == IF to_kafka THEN WithTimestamp(stamped, now)
                                    ELSE stamped
         to_kinesis == ~kafka_failed /\ settings.enable_kinesis_output
         kinesis_failed == to_kinesis /\ ~kinesis_ok
         after_kinesis == IF to_kinesis THEN WithTimestamp(after_kafka, now)
                                        ELSE after_kafka
         failed == r.raised \/ kafka_failed \/ kinesis_failed
     IN  /\ handled' =
              [message |-> m, processor |-> p,
               outcome |-> IF failed THEN "failed" ELSE "ok",
               payload |-> IF r.raised THEN m.value ELSE after_kinesis,
               calls |->
                 IF r.raised THEN <<>>
                 ELSE (IF to_kafka THEN <<KafkaCall(m, stamped, now)>>
                                   ELSE <<>>)
                      \o (IF to_kinesis
                          THEN <<KinesisCall(m, after_kafka, now, u)>>
                          ELSE <<>>)]
         /\ IF failed
            THEN /\ stats' = ProcessMessageExcept(stats)
                 /\ UNCHANGED <<metrics_buffer, processing_times,
                                since_boundary>>
            ELSE /\ stats' = ProcessMessageSuccess(stats)
                 /\ metrics_buffer' =
                      Append(metrics_buffer, <<m.topic, m.offset.num>>)
                 /\ processing_times' =
                      TrackProcessingTime(processing_times, 0)
                 /\ since_boundary' = since_boundary + 1
  /\ completed' = completed + 1

\* _process_message is called with a message of msgs
HandleMessage(msgs, kafka_ok, kinesis_ok, u) ==
  /\ handled = NoCall
  /\ enriched = NoEnrichment
  /\ \E m \in msgs : ProcessMessage(m, kafka_ok, kinesis_ok, u)
  /\ UNCHANGED <<settings, enriched, extraVars, health, timeVars, kafkaVars,
                 kinesis_is_running, loop, consumed_count, delivered,
                 invoked, metricsVars, controlVars>>

\* _default_processor is called with a value of vals, and then with what
\* it returned; dt: the time that has passed since the call before
DefaultProcessorCall(vals, dt) ==
  /\ handled = NoCall
  /\ Len(enriched.outs) < MaxApplications
  /\ now + dt <= MaxTime
  /\ now' = now + dt
  /\ IF enriched = NoEnrichment
     THEN \E v \in vals :
            enriched' = [input |-> v,
                         outs |-> <<DefaultProcessor(v, now + dt)>>]
     ELSE enriched' =
            [enriched EXCEPT
               !.outs = Append(@, DefaultProcessor(@[Len(@)], now + dt))]
  /\ UNCHANGED <<settings, handled, extraVars, health, last_metrics_flush, last_reset,
                 messages_per_second, avg_processing_time, kafkaVars,
                 kinesis_is_running, handlerVars, delivered, invoked,
                 metricsVars, controlVars>>

\* --------------------------------------- KafkaService: its three maps
\* Calls of subscribe_to_topic, unsubscribe_from_topic and stop on
\* KafkaService, each followed from its entry to its return.
mapFrame ==
  <<settings, consumed_count, kinesis_is_running, is_running, processors,
    registered, stats, metrics_buffer, processing_times, loop, delivered,
    invoked, mtask, starter, stopper, life, admin, requests, emitted, lost,
    stop_returned, timeVars, completed, since_boundary, health, callVars,
    bucketed, overlapVars, streaming_consumer>>

\* the live tasks after the task stored for topic t was cancelled
AfterCancel(lv, tasks, t) ==
  IF tasks[t] = "live" THEN [lv EXCEPT ![t] = @ - 1] ELSE lv

\* subscribe_to_topic(t, handler); ok: consumer.start() returns
SubscribeToTopic(t, ok) ==
  /\ IF t \in consumers \/ ~ok
     THEN UNCHANGED <<consumers, mapVars>>
     ELSE /\ consumers' = consumers \cup {t}
          /\ message_handlers' = message_handlers \cup {t}
          /\ consumer_tasks' = [consumer_tasks EXCEPT ![t] = "live"]
          /\ live_loops' = [live_loops EXCEPT ![t] = @ + 1]
  /\ UNCHANGED <<kafka_is_running, producer>>
  /\ UNCHANGED mapFrame

\* unsubscribe_from_topic(t); ok: consumer.stop() returns.  When it raises
\* the except clause of line 443 logs and the call returns
UnsubscribeFromTopic(t, ok) ==
  /\ consumer_tasks' = [consumer_tasks EXCEPT ![t] = "absent"]
  /\ live_loops' = AfterCancel(live_loops, consumer_tasks, t)
  /\ IF t \in consumers /\ ~ok
     THEN UNCHANGED <<consumers, message_handlers>>
     ELSE /\ consumers' = consumers \ {t}
          /\ message_handlers' = message_handlers \ {t}
  /\ UNCHANGED <<kafka_is_running, producer>>
  /\ UNCHANGED mapFrame

\* KafkaService.stop(); ok: every consumer.stop() returns.  When one raises
\* the except clause of line 99 logs and the call returns
KafkaServiceStop(ok) ==
  /\ consumer_tasks' = [t \in AllTopics |-> "absent"]
  /\ live_loops' =
       [t \in AllTopics |-> AfterCancel(live_loops, consumer_tasks, t)[t]]
  /\ IF consumers # {} /\ ~ok
     THEN UNCHANGED <<consumers, producer, kafka_is_running>>
     ELSE /\ consumers' = {}
          /\ producer' = IF producer = "none" THEN "none" ELSE "stopped"
          /\ kafka_is_running' = FALSE
  /\ UNCHANGED message_handlers
  /\ UNCHANGED mapFrame

\* KafkaService.start(), lines 38-65; ok: producer.start() returns
KafkaServiceStart(ok) ==
  /\ producer' = IF ok THEN "started" ELSE "stopped"
  /\ kafka_is_running' = (kafka_is_running \/ ok)
  /\ UNCHANGED <<consumers, mapVars>>
  /\ UNCHANGED mapFrame

\* ------------------------------------------ StreamingMessageConsumer
\* the names class EventTypes of app/models/event.py defines
EventTypesNames ==
  {"LOGIN", "LOGOUT", "PRODUCT_VIEW", "ADD_TO_CART", "REMOVE_FROM_CART",
   "PURCHASE", "SEARCH", "FILTER_APPLY", "PAGE_VIEW", "CLICK", "SCROLL",
   "FORM_SUBMIT", "ERROR"}

\* rows of the users table as Debezium sends them
UserRows ==
  {[id |-> Num(1), username |-> Str("a")],
   [id |-> Num(1), username |-> Str("b")],
   [username |-> Str("a")]}

IsRow(x) == x \in UserRows

\* change events of streaming.users: the operation and the two row images,
\* each a row, null or missing
UserEvents ==
  [op : {"c", "u", "d", "r", "none"},
   before : UserRows \cup {None, Absent},
   after : UserRows \cup {None, Absent}]

NoCdcCall ==
  [pc |-> "idle", attempts |-> 0, published |-> FALSE,
   event |-> [op |-> "none", before |-> Absent, after |-> Absent]]

NoStreamingConsumer ==
  [processed_count |-> 0, error_count |-> 0, events |-> 0,
   call |-> NoCdcCall]

\* before_data.get(key) != after_data.get(key) for a key of after_data
Changed(before, after) ==
  {k \in DOMAIN after :
     (IF Has(before, k) THEN before[k] ELSE None) # after[k]}

\* _process_user_created raises: user_data.get of line 86 on a value
\* that is no row, EventTypes.REGISTER of line 91, user_data["id"]
ProcessUserCreatedRaises(after) ==
  \/ ~IsRow(after)
  \/ "REGISTER" \notin EventTypesNames
  \/ ~Has(after, "id")

\* one attempt of _handle_user_event on event e: whether it raises,
\* whether processed_count is incremented, whether _forward_to_analytics
\* is called
HandleUserEvent(e) ==
  CASE e.op = "c" ->
         IF e.after = Absent \/ ProcessUserCreatedRaises(e.after)
         THEN [raised |-> TRUE, counted |-> FALSE, forwarded |-> FALSE]
         ELSE [raised |-> FALSE, counted |-> TRUE, forwarded |-> TRUE]
    [] e.op = "u" ->
         IF \/ e.before = Absent \/ e.after = Absent
            \/ ~IsRow(e.after)
            \/ ~IsRow(e.before)
         THEN [raised |-> TRUE, counted |-> FALSE, forwarded |-> FALSE]
         ELSE [raised |-> FALSE, counted |-> TRUE,
               forwarded |-> Changed(e.before, e.after) # {}]
    [] e.op = "d" ->
         IF e.before = Absent \/ ~IsRow(e.before)
         THEN [raised |-> TRUE, counted |-> FALSE, forwarded |-> FALSE]
         ELSE [raised |-> FALSE, counted |-> TRUE, forwarded |-> TRUE]
    [] OTHER -> [raised |-> FALSE, counted |-> FALSE, forwarded |-> FALSE]

cdcFrame ==
  <<settings, kafka_is_running, producer, consumers, consumed_count,
    kinesis_is_running, is_running, processors, registered, stats,
    metrics_buffer, processing_times, loop, delivered, invoked, mtask,
    starter, stopper, life, admin, requests, emitted, lost, stop_returned,
    timeVars, completed, since_boundary, health, callVars, bucketed,
    overlapVars, mapVars>>

\* _consume_messages hands event e of streaming.users to the handler
CdcDeliver(e) ==
  /\ streaming_consumer.call.pc \in {"idle", "returned", "raised"}
  /\ streaming_consumer.events < MaxEvents
  /\ streaming_consumer' =
       [streaming_consumer EXCEPT
          !.events = @ + 1,
          !.call = [NoCdcCall EXCEPT !.pc = "running", !.event = e]]
  /\ UNCHANGED cdcFrame

\* one attempt of the handler runs to its end; published: produce_message
\* of _forward_to_analytics returned (the except clause of line 354
\* swallows its failure).  A raising attempt is counted at line 79 and
\* tenacity retries it or gives up
CdcAttempt(published) ==
  /\ streaming_consumer.call.pc = "running"
  /\ LET c == streaming_consumer.call
         r == HandleUserEvent(c.event)
     IN  streaming_consumer' =
           [streaming_consumer EXCEPT
              !.processed_count = IF r.counted THEN @ + 1 ELSE @,
              !.error_count = IF r.raised THEN @ + 1 ELSE @,
              !.call = [c EXCEPT
                          !.attempts = @ + 1,
                          !.published = r.forwarded /\ published,
                          !.pc = IF ~r.raised THEN "returned"
                                 ELSE IF AfterFailedAttempt(c.attempts + 1)
                                           = "wait"
                                      THEN "wait" ELSE "raised"]]
  /\ UNCHANGED cdcFrame

\* tenacity's sleep ends and the handler is called again
CdcBackoffDone ==
  /\ streaming_consumer.call.pc = "wait"
  /\ streaming_consumer' = [streaming_consumer EXCEPT !.call.pc = "running"]
  /\ UNCHANGED cdcFrame

\* ------------------------------- overlapping start, stop and restart
\* Calls of start_processing() and stop() followed one by one: the task
\* lifespan() creates and the admin requests, each of which may be
\* suspended while another one runs.  The tasks are counted as they are
\* created and as they end.
Requests == 1..MaxRequests

NoControlCall == [pc |-> "new", action |-> "none", idx |-> 0]

\* everything the calls below leave alone
overlapFrame ==
  <<settings, kafka_is_running, producer, consumed_count, kinesis_is_running,
    stats, metrics_buffer, processing_times, loop, delivered, invoked, mtask,
    starter, stopper, life, admin, requests, emitted, lost, stop_returned,
    timeVars, completed, since_boundary, health, callVars, bucketed,
    streaming_consumer>>

\* call r, serving action a, returns or raises
ControlReturns(r, a, how) ==
  control_calls' =
    [control_calls EXCEPT ![r] = [pc |-> how, action |-> a, idx |-> 0]]

\* _start_consumers of call r from topic i on, up to the next
\* consumer.start(); when no topic is left, lines 55-63: a metrics task is
\* created and appended, is_running is set.  cons, tasks, alive, run: the
\* consumers, the task list, the metrics tasks and is_running as the call
\* finds them
OverlapStartFrom(r, a, i, cons, tasks, alive, run) ==
  LET j == NextToSubscribe(i, cons)
  IN  IF j <= Len(TopicsToConsume)
      THEN /\ control_calls' =
                [control_calls EXCEPT
                   ![r] = [pc |-> "subscribing", action |-> a, idx |-> j]]
           /\ processing_tasks' = tasks
           /\ is_running' = run
           /\ metrics_tasks' = alive
      ELSE /\ ControlReturns(r, a, "returned")
           /\ processing_tasks' = tasks \cup {r}
           /\ metrics_tasks' = [alive EXCEPT ![r] = "alive"]
           /\ is_running' = TRUE

\* start_processing is entered by call r
OverlapStart(r, a, tasks, alive, run) ==
  /\ processors' = RegisterDefaults(processors)
  /\ registered' = registered \o DefaultRegistrations
  /\ OverlapStartFrom(r, a, 1, consumers, tasks, alive, run)
  /\ UNCHANGED <<consumers, mapVars>>

\* stop() is entered by call r: lines 76-78, every task of the list is
\* cancelled and the call waits for them in gather; with an empty list
\* gather has nothing to wait for
OverlapStop(r, a) ==
  IF processing_tasks = {}
  THEN IF a = "restart"
       THEN OverlapStart(r, a, {}, metrics_tasks, FALSE)
       ELSE /\ ControlReturns(r, a, "returned")
            /\ is_running' = FALSE
            /\ UNCHANGED <<processing_tasks, metrics_tasks, processors,
                           registered, consumers, mapVars>>
  ELSE /\ control_calls' =
            [control_calls EXCEPT
               ![r] = [pc |-> "gathering", action |-> a, idx |-> 0]]
       /\ metrics_tasks' =
            [k \in Requests |->
               IF k \in processing_tasks /\ metrics_tasks[k] = "alive"
               THEN "cancelled" ELSE metrics_tasks[k]]
       /\ UNCHANGED <<processing_tasks, is_running, processors,
                      registered, consumers, mapVars>>

\* the task created by lifespan() runs start_processing
OverlapTaskStart(r) ==
  /\ r = 1
  /\ control_calls[r].pc = "new"
  /\ OverlapStart(r, "task", processing_tasks, metrics_tasks, is_running)
  /\ UNCHANGED overlapFrame

\* control_service, action "start"
OverlapControlStart(r) ==
  /\ control_calls[r].pc = "new"
  /\ IF ~is_running
     THEN OverlapStart(r, "start", processing_tasks, metrics_tasks,
                       is_running)
     ELSE /\ ControlReturns(r, "start", "returned")
          /\ UNCHANGED <<processing_tasks, metrics_tasks, is_running,
                         processors, registered, consumers, mapVars>>
  /\ UNCHANGED overlapFrame

\* control_service, action "stop"
OverlapControlStop(r) ==
  /\ control_calls[r].pc = "new"
  /\ IF is_running
     THEN OverlapStop(r, "stop")
     ELSE /\ ControlReturns(r, "stop", "returned")
          /\ UNCHANGED <<processing_tasks, metrics_tasks, is_running,
                         processors, registered, consumers, mapVars>>
  /\ UNCHANGED overlapFrame

\* control_service, action "restart"
OverlapControlRestart(r) ==
  /\ control_calls[r].pc = "new"
  /\ IF is_running
     THEN OverlapStop(r, "restart")
     ELSE OverlapStart(r, "restart", processing_tasks, metrics_tasks,
                       is_running)
  /\ UNCHANGED overlapFrame

\* gather returns to the stop() of call r: lines 79-82, the list is
\* cleared, with the tasks appended to it since, and is_running is reset;
\* a restart request goes on with start_processing
OverlapStopDone(r) ==
  /\ control_calls[r].pc = "gathering"
  /\ IF control_calls[r].action = "restart"
     THEN OverlapStart(r, "restart", {}, metrics_tasks, FALSE)
     ELSE /\ ControlReturns(r, control_calls[r].action, "returned")
          /\ processing_tasks' = {}
          /\ is_running' = FALSE
          /\ UNCHANGED <<metrics_tasks, processors, registered, consumers,
                         mapVars>>
  /\ UNCHANGED overlapFrame

\* consumer.start() of the subscribe_to_topic of call r returns or raises;
\* lines 239-246: the consumer and the handler are stored for the topic
\* and a task running _consume_messages is created and stored
OverlapSubscribeDone(r, ok) ==
  /\ control_calls[r].pc = "subscribing"
  /\ LET t == TopicsToConsume[control_calls[r].idx]
         a == control_calls[r].action
     IN  IF ok
         THEN /\ consumers' = consumers \cup {t}
              /\ message_handlers' = message_handlers \cup {t}
              /\ consumer_tasks' = [consumer_tasks EXCEPT ![t] = "live"]
              /\ live_loops' = [live_loops EXCEPT ![t] = @ + 1]
              /\ OverlapStartFrom(r, a, control_calls[r].idx + 1,
                                  consumers \cup {t}, processing_tasks,
                                  metrics_tasks, is_running)
         ELSE /\ ControlReturns(r, a, "raised")
              /\ UNCHANGED <<consumers, mapVars, processing_tasks,
                             metrics_tasks, is_running>>
  /\ UNCHANGED <<processors, registered>>
  /\ UNCHANGED overlapFrame

\* a metrics task that was not cancelled wakes from its sleep with
\* is_running false and leaves the loop of line 352
OverlapMetricsTaskExits(k) ==
  /\ metrics_tasks[k] = "alive"
  /\ ~is_running
  /\ metrics_tasks' = [metrics_tasks EXCEPT ![k] = "exited"]
  /\ UNCHANGED <<control_calls, processing_tasks, is_running, processors,
                 registered, consumers, mapVars>>
  /\ UNCHANGED overlapFrame

\* ------------------------------------------------------ specification
Init ==
  /\ settings \in Settings
  /\ kafka_is_running = FALSE
  /\ producer = "none"
  /\ consumers = {}
  /\ consumed_count = 0
  /\ kinesis_is_running = FALSE
  /\ is_running = FALSE
  /\ processors = [t \in AllTopics |-> "none"]
  /\ stats = [messages_processed |-> 0, processing_errors |-> 0]
  /\ metrics_buffer = <<>>
  /\ processing_times = <<>>
  /\ loop = [t \in Topics |-> NoTask]
  /\ delivered = [t \in Topics |-> 0]
  /\ invoked = [r \in RecordIds |-> 0]
  /\ mtask = NoMetricsTask
  /\ starter = IdleStarter
  /\ stopper = "none"
  /\ life = "init"
  /\ admin = "idle"
  /\ requests = 0
  /\ emitted = [r \in RecordIds |-> 0]
  /\ lost = {}
  /\ stop_returned = FALSE
  /\ now = 0
  /\ last_metrics_flush = 0
  /\ last_reset = 0
  /\ messages_per_second = Zero
  /\ avg_processing_time = Zero
  /\ completed = 0
  /\ since_boundary = 0
  /\ health = NoProbe
  /\ registered = <<>>
  /\ handled = NoCall
  /\ enriched = NoEnrichment
  /\ bucketed = <<>>
  /\ control_calls = [r \in Requests |-> NoControlCall]
  /\ processing_tasks = {}
  /\ metrics_tasks = [r \in Requests |-> "none"]
  /\ live_loops = [t \in AllTopics |-> 0]
  /\ consumer_tasks = [t \in AllTopics |-> "absent"]
  /\ message_handlers = {}
  /\ streaming_consumer = NoStreamingConsumer

Next ==
  \/ \E ok \in BOOLEAN : LifespanStartup(ok)
  \/ StartTaskRuns
  \/ \E ok \in BOOLEAN : SubscribeDone(ok)
  \/ \E t \in Topics, v \in AmountKinds : Deliver(t, v)
  \/ \E t \in Topics, ok \in BOOLEAN : KafkaSendDone(t, ok)
  \/ \E t \in Topics : KafkaBackoffDone(t)
  \/ \E t \in Topics, ok \in BOOLEAN : KinesisPutDone(t, ok)
  \/ \E t \in Topics : KinesisBackoffDone(t)
  \/ \E t \in Topics : ConsumerError(t)
  \/ MetricsCycle(0)
  \/ \E ok \in BOOLEAN : MetricsSendDone(ok)
  \/ MetricsBackoffDone
  \/ AdminStart
  \/ AdminStop
  \/ AdminRestart
  \/ StopDone
  \/ ShutdownBegin
  \/ ShutdownConsumers
  \/ ShutdownServices

Spec == Init /\ [][Next]_vars

\* the pipeline with both outputs switched off, its control operations and
\* the metrics task; the event loop resumes stop() once the tasks it
\* gathers have ended
InitStop ==
  /\ Init
  /\ ~settings.enable_kafka_output
  /\ ~settings.enable_kinesis_output

NextStop ==
  \/ \E ok \in BOOLEAN : LifespanStartup(ok)
  \/ StartTaskRuns
  \/ \E ok \in BOOLEAN : SubscribeDone(ok)
  \/ \E t \in Topics, v \in AmountKinds : Deliver(t, v)
  \/ \E t \in Topics : ConsumerError(t)
  \/ MetricsCycle(0)
  \/ \E ok \in BOOLEAN : MetricsSendDone(ok)
  \/ MetricsBackoffDone
  \/ AdminStart
  \/ AdminStop
  \/ AdminRestart
  \/ StopDone
  \/ ShutdownBegin
  \/ ShutdownConsumers
  \/ ShutdownServices

SpecStop == InitStop /\ [][NextStop]_vars /\ WF_vars(StopDone)

\* _process_message followed on one message, and _default_processor on one
\* value: the functions of the data path, on every message of Messages
InitPayload ==
  /\ Init
  /\ ~settings.enable_metrics_to_kafka

NextPayload ==
  \/ \E ok \in BOOLEAN : LifespanStartup(ok)
  \/ StartTaskRuns
  \/ \E ok \in BOOLEAN : SubscribeDone(ok)
  \/ \E kafka_ok, kinesis_ok \in BOOLEAN, u \in Uuids :
       HandleMessage(Messages, kafka_ok, kinesis_ok, u)
  \/ \E dt \in {0, 1} : DefaultProcessorCall(Values, dt)

SpecPayload == InitPayload /\ [][NextPayload]_vars

\* the registry: processors registered before and after start_processing
\* installs the default ones, and the processor a message then meets
NextRegistry ==
  \/ \E ok \in BOOLEAN : LifespanStartup(ok)
  \/ StartTaskRuns
  \/ \E ok \in BOOLEAN : SubscribeDone(ok)
  \/ \E t \in AllTopics, p \in CustomProcessors : RegisterProcessorCall(t, p)
  \/ \E kafka_ok, kinesis_ok \in BOOLEAN, u \in Uuids :
       HandleMessage(RegistryMessages, kafka_ok, kinesis_ok, u)

SpecRegistry == InitPayload /\ [][NextRegistry]_vars

\* orders met by the pipeline before and after start_processing
NextOrders ==
  \/ \E ok \in BOOLEAN : LifespanStartup(ok)
  \/ StartTaskRuns
  \/ \E ok \in BOOLEAN : SubscribeDone(ok)
  \/ \E kafka_ok, kinesis_ok \in BOOLEAN, u \in Uuids :
       HandleMessage(OrderMessages, kafka_ok, kinesis_ok, u)

SpecOrders == InitPayload /\ [][NextOrders]_vars

\* events met by the pipeline before and after start_processing
NextCategory ==
  \/ \E ok \in BOOLEAN : LifespanStartup(ok)
  \/ StartTaskRuns
  \/ \E ok \in BOOLEAN : SubscribeDone(ok)
  \/ \E kafka_ok, kinesis_ok \in BOOLEAN, u \in Uuids :
       HandleMessage(CategoryMessages, kafka_ok, kinesis_ok, u)

SpecCategory == InitPayload /\ [][NextCategory]_vars

\* the pipeline with the health endpoint polled; both outputs and the
\* metrics publish are switched off, so no publish action is taken
InitHealth ==
  /\ Init
  /\ ~settings.enable_kafka_output
  /\ ~settings.enable_kinesis_output
  /\ ~settings.enable_metrics_to_kafka

NextHealth ==
  \/ \E ok \in BOOLEAN : LifespanStartup(ok)
  \/ StartTaskRuns
  \/ \E ok \in BOOLEAN : SubscribeDone(ok)
  \/ \E t \in Topics, v \in AmountKinds : Deliver(t, v)
  \/ \E t \in Topics : ConsumerError(t)
  \/ MetricsCycle(0)
  \/ AdminStart
  \/ AdminStop
  \/ AdminRestart
  \/ StopDone
  \/ ShutdownBegin
  \/ ShutdownConsumers
  \/ ShutdownServices
  \/ HealthCall
  \/ \E ok \in BOOLEAN : KafkaProbeDone(ok)
  \/ \E ok \in BOOLEAN : KinesisProbeDone(ok)

SpecHealth == InitHealth /\ [][NextHealth]_vars

\* the pipeline with the clock running: asyncio.sleep of the metrics task
\* returns after one interval or, the event loop being busy, after two; the
\* broker output is on, so that a call of the handler spans clock readings
SleepTimes == {1, 2}

InitCycle ==
  /\ Init
  /\ settings.enable_kafka_output
  /\ ~settings.enable_kinesis_output

NextCycle ==
  \/ \E ok \in BOOLEAN : LifespanStartup(ok)
  \/ StartTaskRuns
  \/ \E ok \in BOOLEAN : SubscribeDone(ok)
  \/ \E t \in Topics, v \in AmountKinds : Deliver(t, v)
  \/ \E t \in Topics, ok \in BOOLEAN : KafkaSendDone(t, ok)
  \/ \E t \in Topics : KafkaBackoffDone(t)
  \/ \E dt \in SleepTimes : MetricsCycle(dt)
  \/ \E ok \in BOOLEAN : MetricsSendDone(ok)
  \/ MetricsBackoffDone

SpecCycle == InitCycle /\ [][NextCycle]_vars

\* lines 132-138 of _process_message on their own: the durations of
\* successive successful calls enter the window; the k-th duration is k, so
\* that an entry tells which call it came from (completed counts the calls)
TrackSample ==
  /\ completed < MaxSamples
  /\ processing_times' = TrackProcessingTime(processing_times, completed + 1)
  /\ completed' = completed + 1
  /\ UNCHANGED <<settings, callVars, extraVars, kafka_is_running, producer, consumers,
                 consumed_count, kinesis_is_running, is_running, processors, registered,
                 stats, metrics_buffer, loop, delivered, invoked, mtask, starter,
                 stopper, life, admin, requests, emitted, lost, stop_returned,
                 now, last_metrics_flush, last_reset, messages_per_second,
                 avg_processing_time, since_boundary, health>>

NextWindow == TrackSample

SpecWindow == InitHealth /\ [][NextWindow]_vars

\* _categorize_amount called on the amounts of AmountSamples
NextAmount == \E a \in AmountSamples : CategorizeAmountCall(a)

SpecAmount == InitHealth /\ [][NextAmount]_vars

\* start_processing and stop called by the task of lifespan and by admin
\* requests that overlap
NextOverlap ==
  \/ \E r \in Requests : OverlapTaskStart(r)
  \/ \E r \in Requests : OverlapControlStart(r)
  \/ \E r \in Requests : OverlapControlStop(r)
  \/ \E r \in Requests : OverlapControlRestart(r)
  \/ \E r \in Requests : OverlapStopDone(r)
  \/ \E r \in Requests, ok \in BOOLEAN : OverlapSubscribeDone(r, ok)
  \/ \E k \in Requests : OverlapMetricsTaskExits(k)

SpecOverlap == InitHealth /\ [][NextOverlap]_vars

\* the maps of KafkaService under calls made one after the other
NextMaps ==
  \/ \E ok \in BOOLEAN : KafkaServiceStart(ok)
  \/ \E t \in AllTopics, ok \in BOOLEAN : SubscribeToTopic(t, ok)
  \/ \E t \in AllTopics, ok \in BOOLEAN : UnsubscribeFromTopic(t, ok)
  \/ \E ok \in BOOLEAN : KafkaServiceStop(ok)

SpecMaps == InitHealth /\ [][NextMaps]_vars

\* change events of streaming.users handled by the streaming consumer
NextCdc ==
  \/ \E e \in UserEvents : CdcDeliver(e)
  \/ \E published \in BOOLEAN : CdcAttempt(published)
  \/ CdcBackoffDone

SpecCdc == InitHealth /\ [][NextCdc]_vars

\* ------------------------------------------------------------ sanity
TypeOK ==
  /\ settings \in Settings
  /\ producer \in {"none", "started", "stopped"}
  /\ consumers \subseteq Topics
  /\ \A t \in Topics :
       /\ loop[t].pc \in {"none", "next", "kafka_send", "kafka_wait",
                          "kinesis_send", "kinesis_wait", "done"}
       /\ loop[t].att \in 0..RetryAttempts
       /\ loop[t].off \in 0..MaxMsgs
  /\ mtask.pc \in {"none", "sleep", "send", "wait", "done"}
  /\ mtask.sent <= Len(metrics_buffer)
  /\ is_running => mtask.pc # "none"
  /\ requests \in 0..MaxControl

\* ------------------------------------------------------------ claims
\* what the claims speak of, read off a step of topic t's loop
InFlight(l) ==
  l.pc \in {"kafka_send", "kafka_wait", "kinesis_send", "kinesis_wait"}

InKafka(l) == l.pc \in {"kafka_send", "kafka_wait"}
InKinesis(l) == l.pc \in {"kinesis_send", "kinesis_wait"}

\* the step ends the handling of a message of topic t
HandlingEnds(t) ==
  /\ InFlight(loop[t]) \/ delivered'[t] # delivered[t]
  /\ ~InFlight(loop'[t])

\* ... with _process_message returning to the loop (not by cancellation)
HandlerReturns(t) == HandlingEnds(t) /\ loop'[t].res # "cancelled"

\* ... after an exception reached its except clause
HandlerFails(t) ==
  /\ HandlingEnds(t)
  /\ loop'[t].res \in {"processor_raised", "kafka_fail", "kinesis_fail"}

CountedProcessed ==
  /\ stats'.messages_processed = stats.messages_processed + 1
  /\ stats'.processing_errors = stats.processing_errors

CountedError ==
  /\ stats'.processing_errors = stats.processing_errors + 1
  /\ stats'.messages_processed = stats.messages_processed

BothOutputs ==
  settings.enable_kafka_output /\ settings.enable_kinesis_output

\* every enabled sink has published the message of l once
SinksPublished(l) ==
  /\ settings.enable_kafka_output => l.pub = 1
  /\ settings.enable_kinesis_output => l.put = 1

\* C1 as stated: every message handed to _process_message changes exactly
\* one of messages_processed and processing_errors, by one.
C1_EveryHandedMessageCounted ==
  [][\A t \in Topics : HandlingEnds(t) => (CountedProcessed \/ CountedError)]_vars

\* C1, amended: every call of _process_message that returns (the loop was
\* not cancelled while the call was suspended in a publish) changes exactly
\* one of messages_processed and processing_errors by one, never both and
\* never neither.
C1_ReturnedCallCountsOnce ==
  [][\A t \in Topics : HandlerReturns(t) => (CountedProcessed \/ CountedError)]_vars

\* C1 witness: one call counted as processed and one as an error
C1_Witness ==
  /\ stats.messages_processed = 1
  /\ stats.processing_errors = 1
  /\ \E t \in Topics : loop[t].res = "ok"

\* C2 as stated: a call whose processor returned counts the message as
\* processed, a call whose processor raised counts an error.
C2_ProcessorOutcomeDecides ==
  [][\A t \in Topics : HandlerReturns(t) =>
        IF loop'[t].res # "processor_raised" THEN CountedProcessed
                                              ELSE CountedError]_vars

\* C2, amended: for a call that returns, messages_processed increases by one
\* and processing_errors is unchanged when the processor returned and every
\* enabled sink published the message; processing_errors increases by one
\* and messages_processed is unchanged when the processor raised or the
\* publish to an enabled sink failed after its retries.
C2_ProcessorAndSinksDecide ==
  [][\A t \in Topics : HandlerReturns(t) =>
        IF loop'[t].res # "processor_raised" /\ SinksPublished(loop'[t])
        THEN CountedProcessed ELSE CountedError]_vars

\* C2 witness: the processor returned, the broker sink published, the stream
\* sink failed, and the call was counted as an error
C2_Witness ==
  \E t \in Topics :
    /\ loop[t].res = "kinesis_fail"
    /\ loop[t].pub = 1
    /\ stats.processing_errors >= 1

\* C3 as stated: with both outputs enabled, when the publish to
\* <topic>_processed fails for a message the put-record to <topic>-processed
\* is still attempted for it.
C3_StreamSinkAttemptedAfterBrokerFailure ==
  [][\A t \in Topics :
        (BothOutputs /\ InKafka(loop[t]) /\ ~InKafka(loop'[t])
           /\ loop'[t].pub = 0 /\ loop'[t].res # "cancelled")
        => InKinesis(loop'[t])]_vars

\* C4: with both outputs enabled, the broker sink accepting and the stream
\* sink failing, the message is published exactly once to <topic>_processed
\* and processing_errors increases by one when the call returns; the failed
\* attempts before the last one change no counter.
C4_BrokerPublishedOnceErrorCountedOnce ==
  [][\A t \in Topics :
        (BothOutputs /\ InKinesis(loop[t]) /\ loop'[t] # loop[t]
           /\ loop'[t].res # "cancelled")
        => /\ loop'[t].pub = 1
           /\ loop'[t].put = 0 =>
                IF InFlight(loop'[t]) THEN stats' = stats ELSE CountedError]_vars

\* C4 witness: the call returned after the third failed put-record
C4_Witness ==
  /\ BothOutputs
  /\ \E t \in Topics :
       /\ loop[t].pc = "next"
       /\ loop[t].res = "kinesis_fail"
       /\ loop[t].pub = 1
       /\ loop[t].put = 0
  /\ stats.processing_errors = 1

\* C5 as stated: every record appended to the metrics buffer goes out in
\* exactly one flushed batch; the clear removes no record that was not
\* published, and no record is published twice.
C5_NoRecordLostOrRepeated ==
  settings.enable_metrics_to_kafka =>
    /\ lost = {}
    /\ \A r \in RecordIds : emitted[r] <= 1

\* the step in which a call of _flush_metrics_buffer returns
MetricsStep == requests' = requests /\ life' = life /\ stopper' = stopper

FlushReturns ==
  /\ MetricsStep
  /\ mtask' # mtask
  /\ \/ mtask.pc = "sleep" /\ FlushDue
     \/ mtask.pc \in {"send", "wait"}
  /\ mtask'.pc \notin {"send", "wait"}

\* the flush published its batch, or has no publish to make
FlushPublished == ~settings.enable_metrics_to_kafka \/ emitted' # emitted

\* C6 as stated: after every call of _flush_metrics_buffer that returns the
\* buffer is empty.
C6_BufferEmptyAfterEveryFlush ==
  [][FlushReturns => metrics_buffer' = <<>>]_vars

\* C6, amended: after every call of _flush_metrics_buffer that returns with
\* the batch published (or with the metrics publish disabled) the buffer has
\* size 0 and holds no record it held before; a call whose publish failed
\* after its retries returns with the buffer as it is.
C6_BufferEmptyAfterPublishedFlush ==
  [][FlushReturns => IF FlushPublished THEN metrics_buffer' = <<>>
                                       ELSE metrics_buffer' = metrics_buffer]_vars

\* C6 witness: a batch went out and the buffer is empty
C6_Witness ==
  /\ settings.enable_metrics_to_kafka
  /\ \E r \in RecordIds : emitted[r] = 1
  /\ metrics_buffer = <<>>
  /\ mtask.pc = "sleep"

\* C7 as stated: once StreamProcessor.stop() has returned, every delivery
\* loop and the metrics task have ended.
C7_NoTaskAfterStop ==
  stop_returned =>
    /\ \A t \in Topics : loop[t].pc \in {"none", "done"}
    /\ mtask.pc \in {"none", "done"}

\* C8 as stated: the broker producer is stopped only after every delivery
\* loop and the metrics task have ended.
C8_HandlesReleasedLast ==
  producer = "stopped" =>
    /\ \A t \in Topics : loop[t].pc \in {"none", "done"}
    /\ mtask.pc \in {"none", "done"}

\* C9: a call of _process_message in which the processor raised or a sink
\* publish failed after its retries returns normally: processing_errors is
\* incremented, _consume_messages counts the message as consumed (nothing
\* was raised to it), and the pipeline and its metrics task keep running.
C9_FailureNotPropagated ==
  [][\A t \in Topics : HandlerFails(t) =>
        /\ stats'.processing_errors = stats.processing_errors + 1
        /\ consumed_count' = consumed_count + 1
        /\ is_running' = is_running
        /\ mtask' = mtask]_vars

\* C9 witness: a sink failure and a processor failure were both consumed
C9_Witness ==
  /\ is_running
  /\ consumed_count = 2
  /\ loop["orders"].res = "processor_raised"
  /\ loop["misc"].res = "kafka_fail"

\* C10: a failed message does not end its topic's loop: after the failure
\* the loop waits for the next message of the topic, and a loop ends only by
\* cancellation or by an error of the consumer itself.
C10_LoopSurvivesFailure ==
  [][\A t \in Topics :
        /\ HandlerFails(t) => loop'[t].pc = "next"
        /\ (loop[t].pc \notin {"none", "done"} /\ loop'[t].pc = "done")
             => (life' = "stopping_consumers" \/ loop'[t].res = "consumer_error")]_vars

\* C10 witness: message 1 of a topic failed and its message 2 is in the
\* handler
C10_Witness ==
  \E t \in Topics :
    /\ \A u \in Topics \ {t} : delivered[u] = 0
    /\ stats.processing_errors = 1
    /\ consumed_count = 1
    /\ loop[t].off = 2
    /\ InFlight(loop[t])

\* the step in which a call of is_healthy() returns
HealthCallReturns == health.pc # "returned" /\ health'.pc = "returned"

OnlyMetricsMoves ==
  UNCHANGED <<loop, delivered, health, starter, stopper, life, admin, requests>>

\* asyncio.sleep of _collect_metrics returned and a cycle began
TimerFires == mtask.pc = "sleep" /\ OnlyMetricsMoves

\* the step started a flush or cleared the buffer
FlushStartedOrDone ==
  mtask'.pc \in {"send", "wait"} \/ metrics_buffer' = <<>>

\* C12 as stated: the buffer is flushed when its size exceeds
\* metrics_buffer_size or when the timer fires, whichever comes first: a
\* timer tick flushes a non-empty buffer whatever its size, and an append
\* that takes the buffer over capacity starts a flush without waiting for
\* the timer.
C12_FlushOnCapacityOrTimer ==
  [][/\ (TimerFires /\ metrics_buffer # <<>>) => FlushStartedOrDone
     /\ (/\ mtask.pc = "sleep"
         /\ Len(metrics_buffer') > Len(metrics_buffer)
         /\ Len(metrics_buffer') > metrics_buffer_size) => FlushStartedOrDone]_vars

\* C13: the processing-time window never holds more than 1000 entries; when
\* an appended duration would exceed the cap the oldest one is dropped, so
\* the window is the most recent (at most 1000) durations in completion
\* order.
C13_WindowIsLastThousand ==
  LET n == Len(processing_times)
  IN  /\ n <= 1000
      /\ n = IF completed <= 1000 THEN completed ELSE 1000
      /\ \A i \in 1..n : processing_times[i] = completed - n + i

\* C13 witness: more than 1000 durations were tracked and the oldest ones
\* are gone
C13_Witness ==
  /\ completed = 1002
  /\ Len(processing_times) = 1000
  /\ processing_times[1] = 3
  /\ processing_times[1000] = 1002

\* the step in which a metrics cycle completes (its loop body reaches its
\* end; a cancelled cycle does not)
CycleCompletes ==
  /\ OnlyMetricsMoves
  /\ mtask.pc \in {"sleep", "send", "wait"}
  /\ mtask'.pc \in {"sleep", "done"}

\* C14: every completed metrics cycle resets messages_processed and
\* processing_errors to 0, so that what they hold afterwards counts only the
\* calls completed since that cycle.
C14_CycleResetsCounters ==
  [][CycleCompletes =>
       /\ stats'.messages_processed = 0
       /\ stats'.processing_errors = 0
       /\ completed' = 0]_vars

\* C14 witness: a success and a failure were counted and a cycle has since
\* reset both counters
C14_Witness ==
  /\ loop["orders"].res = "processor_raised"
  /\ loop["misc"].res = "ok"
  /\ loop["orders"].pc = "next"
  /\ loop["misc"].pc = "next"
  /\ mtask.pc = "sleep"
  /\ stats.messages_processed = 0
  /\ stats.processing_errors = 0

\* C15 as stated: every completed metrics cycle advances last_reset.
C15_LastResetAdvances ==
  [][CycleCompletes => last_reset' > last_reset]_vars

\* C16 as stated: from the second cycle on, messages_per_second is set to
\* the number of messages successfully processed since the previous cycle
\* read the clock, divided by the time elapsed since that reading.
C16_RateOfTheInterval ==
  [][(TimerFires /\ last_metrics_flush > 0) =>
       messages_per_second' =
         Frac(since_boundary, now' - last_metrics_flush)]_vars

\* C17: a metrics cycle sets avg_processing_time to the arithmetic mean of
\* the window when the window is not empty, and leaves it as it was when the
\* window is empty.
C17_AverageIsMeanOfWindow ==
  [][TimerFires =>
       IF processing_times # <<>>
       THEN avg_processing_time'.num * Len(processing_times) =
              SumSeq(processing_times) * avg_processing_time'.den
       ELSE avg_processing_time' = avg_processing_time]_vars

\* C17 witness: the mean of a window of two durations is not a whole number
C17_Witness ==
  /\ Len(processing_times) = 2
  /\ avg_processing_time.den = 2
  /\ avg_processing_time.num = SumSeq(processing_times)

\* C18: whatever the interleaving of the delivery loops with each other and
\* with the metrics cycle, messages_processed + processing_errors is the
\* number of _process_message calls completed since the last counter reset.
C18_NoCounterUpdateLost ==
  stats.messages_processed + stats.processing_errors = completed

\* C18 witness: both loops have completed calls, one of them while the
\* metrics cycle was suspended in its flush
C18_Witness ==
  /\ mtask.pc = "send"
  /\ completed = 3
  /\ delivered["orders"] > 0
  /\ delivered["misc"] > 0
  /\ stats.processing_errors > 0

\* C19: within one topic the handler is called for one message at a time,
\* in delivery order: the loop is in no handler call when it hands over the
\* next message, and a publish to <topic>_processed is always for the
\* latest message delivered, so the outputs follow the order of the offsets.
C19_OneAtATimeInOrder ==
  [][\A t \in Topics :
        /\ invoked' # invoked /\ delivered'[t] # delivered[t]
             => /\ ~InFlight(loop[t])
                /\ loop'[t].off = delivered[t] + 1
                /\ loop'[t].off > loop[t].off \/ loop[t].off = 0
        /\ (loop'[t].off = loop[t].off /\ loop'[t].pub > loop[t].pub)
             => loop[t].off = delivered[t]]_vars

\* C19 witness: messages 1 and 2 of a topic were published one after the
\* other while the other topic had a message in its handler
C19_Witness ==
  \E t \in Topics :
    /\ settings.enable_kafka_output
    /\ loop[t].off = 2
    /\ loop[t].pub = 1
    /\ loop[t].res = "ok"
    /\ stats.messages_processed = 2
    /\ \E u \in Topics \ {t} : InFlight(loop[u])

\* C20: every delivered message had its processor called exactly once: a
\* message whose handling failed is not handed to the handler again.
C20_ProcessorCalledOnce ==
  \A r \in RecordIds :
    invoked[r] = IF r[2] <= delivered[r[1]] THEN 1 ELSE 0

\* C20 witness: the publish of message 1 of "misc" (whose processor never
\* raises) failed after its attempts, the processor was called once for it
\* and the loop has taken message 2
C20_Witness ==
  /\ settings.enable_kafka_output
  /\ delivered["misc"] = 2
  /\ delivered["orders"] = 0
  /\ loop["misc"].off = 2
  /\ InFlight(loop["misc"])
  /\ invoked[<<"misc", 1>>] = 1
  /\ completed = 1
  /\ stats.processing_errors = 1

\* ---------------------------------------------------------------- C21
\* the start_processing task of lifespan has ended without setting
\* is_running: a consumer.start() raised and start_processing re-raised
StartRefused ==
  /\ life = "serving"
  /\ requests = 0
  /\ starter.pc = "idle"
  /\ ~is_running

\* C21: when subscribing to a configured topic fails during
\* start_processing, the start is refused as a whole: is_running stays
\* false and neither a delivery loop nor a metrics task created by that
\* attempt is left running.
C21_RefusedStartLeavesNothingRunning ==
  StartRefused =>
    /\ mtask.pc = "none"
    /\ \A t \in Topics : loop[t].pc \in {"none", "done"}

\* ---------------------------------------------------------------- C22
\* the attempts a publish call has made when this step makes it fail to
\* its caller: the send of attempt att raised, or the guard of attempt
\* att + 1 raised after the sleep
AttemptsAtFailure(l, sending, waiting) ==
  CASE l.pc = sending -> l.att
    [] l.pc = waiting -> l.att + 1
    [] OTHER          -> 0

\* C22: a publish call (produce_message, put_record) makes at most 3
\* attempts; the first attempt that succeeds ends the call with no further
\* attempt, and the call fails to its caller only when the third attempt
\* in a row has failed.
C22_AtMostThreeAttempts ==
  [][/\ mtask'.att <= RetryAttempts
     /\ \A t \in Topics :
          /\ loop'[t].att <= RetryAttempts
          /\ loop'[t].pub = loop[t].pub + 1 => ~InKafka(loop'[t])
          /\ loop'[t].put = loop[t].put + 1 => ~InKinesis(loop'[t])
          /\ loop'[t].pub <= 1 /\ loop'[t].put <= 1
          /\ (loop'[t].res = "kafka_fail" /\ InKafka(loop[t])) =>
               AttemptsAtFailure(loop[t], "kafka_send", "kafka_wait")
                 = RetryAttempts
          /\ (loop'[t].res = "kinesis_fail" /\ InKinesis(loop[t])) =>
               AttemptsAtFailure(loop[t], "kinesis_send", "kinesis_wait")
                 = RetryAttempts]_vars

\* a publish to the broker failed to the handler while the broker service
\* was running throughout: three sends were made and each raised
C22_Witness ==
  /\ life = "serving"
  /\ \E t \in Topics : loop[t].res = "kafka_fail" /\ loop[t].pc = "next"

\* ---------------------------------------------------------------- C23
\* the step appends one record to the metrics buffer
RecordAppended ==
  /\ Len(metrics_buffer') = Len(metrics_buffer) + 1
  /\ SubSeq(metrics_buffer', 1, Len(metrics_buffer)) = metrics_buffer

\* C23: over the pipeline's lifetime as many metric records are appended
\* to the buffer as messages are counted in messages_processed: a step
\* appends a record exactly when it counts a message as processed, the
\* record is that message's, the buffer grows in no other way, and a step
\* that counts an error appends nothing.
C23_RecordPerProcessedMessage ==
  [][/\ RecordAppended <=> CountedProcessed
     /\ Len(metrics_buffer') > Len(metrics_buffer) => RecordAppended
     /\ RecordAppended =>
          \E t \in Topics :
            /\ HandlerReturns(t)
            /\ loop'[t].res = "ok"
            /\ metrics_buffer'[Len(metrics_buffer')] = <<t, loop'[t].off>>
     /\ CountedError => metrics_buffer' = metrics_buffer]_vars

\* two messages were processed and one failed: two records in the buffer
C23_Witness ==
  /\ Len(metrics_buffer) = 2
  /\ stats.messages_processed = 2
  /\ stats.processing_errors = 1
  /\ consumed_count = 3

\* ---------------------------------------------------------------- C24
\* the step enters stop() with a metrics task in the list
StopCancels == stopper = "none" /\ stopper' # "none"

\* C24: stop() always terminates: the metrics task it cancels ends where
\* it is suspended, in its sleep or in the middle of a flush, and the
\* gather returns; when stop() has returned the task list is empty and
\* is_running is false.
C24_StopTerminatesClean ==
  /\ [][StopCancels => mtask.pc # "none" /\ mtask'.pc = "done"]_vars
  /\ [](stop_returned => mtask = NoMetricsTask /\ ~is_running)
  /\ (stopper # "none") ~> (stopper = "none")

\* stop() returned after cancelling the metrics task before a flush of the
\* buffer was complete: the buffer is still over its capacity, no record
\* of it was published or dropped
C24_Witness ==
  /\ stop_returned
  /\ ~is_running
  /\ mtask = NoMetricsTask
  /\ settings.enable_metrics_to_kafka
  /\ Len(metrics_buffer) > metrics_buffer_size
  /\ \A r \in RecordIds : emitted[r] = 0
  /\ lost = {}

\* ---------------------------------------------------------------- C25
\* the step is a whole call of _process_message
HandleStep == handled = NoCall /\ handled' # NoCall

\* the processor that signed the payload
SignedBy(payload) ==
  CASE Has(payload, "processed_by") -> payload["processed_by"].str
    [] Has(payload, "processor_id") -> "default_processor"
    [] OTHER -> "none"

\* C25: the resolution of a processor is total: for every topic the
\* processor applied to a message is the one registered for its topic when
\* there is one, and the default processor otherwise.
C25_ResolutionIsTotal ==
  [][HandleStep =>
       LET t == handled'.message.topic
       IN  /\ handled'.processor \in ProcessorNames
           /\ processors[t] # "none" => handled'.processor = processors[t]
           /\ processors[t] = "none" =>
                handled'.processor = "default_processor"
           /\ SignedBy(handled'.payload) = handled'.processor]_vars

\* with the default processors installed, a message of a topic that has
\* none went through the default processor
C25_Witness ==
  /\ processors["orders"] = "order_processor"
  /\ handled.message.topic = "misc"
  /\ processors["misc"] = "none"
  /\ handled.processor = "default_processor"
  /\ SignedBy(handled.payload) = "default_processor"

\* ---------------------------------------------------------------- C26
\* C26: after any sequence of registrations, in any order, the processor
\* used for a topic is the one registered for it most recently (the
\* processors start_processing installs are registrations like the
\* others): the registry resolves the topic to it, and a message of the
\* topic is handed to it.
C26_LastRegistrationWins ==
  /\ [](\A t \in AllTopics :
          LastRegistered(registered, t) # "none" =>
            Resolve(processors, t) = LastRegistered(registered, t))
  /\ [][HandleStep =>
          LET t == handled'.message.topic
          IN  LastRegistered(registered, t) # "none" =>
                /\ handled'.processor = LastRegistered(registered, t)
                /\ SignedBy(handled'.payload) = LastRegistered(registered, t)
       ]_vars

\* a topic was registered twice with different processors and a message of
\* it met the second
C26_Witness ==
  \E i, j \in 1..Len(registered) :
    /\ i < j
    /\ registered[i][1] = handled.message.topic
    /\ registered[j][1] = handled.message.topic
    /\ registered[i][2] # registered[j][2]
    /\ \A k \in (j + 1)..Len(registered) :
         registered[k][1] # handled.message.topic
    /\ handled.processor = registered[j][2]

\* ---------------------------------------------------------------- C27
\* the payload d carries the metadata of message m
CarriesMetadata(d, m) ==
  /\ Has(d, "processed_at") /\ DOMAIN d["processed_at"] = {"time"}
  /\ Has(d, "original_topic") /\ d["original_topic"] = Str(m.topic)
  /\ Has(d, "original_offset") /\ d["original_offset"] = m.offset
  /\ Has(d, "original_partition") /\ d["original_partition"] = m.partition

\* the calls made to one sink
CallsTo(sink) ==
  {i \in 1..Len(handled.calls) : handled.calls[i].sink = sink}

\* C27: when a message is processed with success, the payload sent to the
\* sinks carries processed_at, original_topic, original_offset and
\* original_partition of that message; it is sent to the broker topic
\* <topic>_processed exactly when broker output is enabled and to the
\* stream <topic>-processed exactly when secondary output is enabled; a
\* disabled sink is never called, whatever the outcome.
C27_StampedAndRoutedAsConfigured ==
  handled # NoCall =>
    LET m == handled.message
    IN  /\ ~settings.enable_kafka_output => CallsTo("kafka") = {}
        /\ ~settings.enable_kinesis_output => CallsTo("kinesis") = {}
        /\ handled.outcome = "ok" =>
             /\ CarriesMetadata(handled.payload, m)
             /\ Cardinality(CallsTo("kafka")) =
                  IF settings.enable_kafka_output THEN 1 ELSE 0
             /\ Cardinality(CallsTo("kinesis")) =
                  IF settings.enable_kinesis_output THEN 1 ELSE 0
             /\ \A i \in CallsTo("kafka") :
                  /\ handled.calls[i].dest =
                       [topic |-> m.topic, suffix |-> "_processed"]
                  /\ CarriesMetadata(handled.calls[i].data, m)
             /\ \A i \in CallsTo("kinesis") :
                  /\ handled.calls[i].dest =
                       [topic |-> m.topic, suffix |-> "-processed"]
                  /\ CarriesMetadata(handled.calls[i].data, m)

\* a message of partition 1 went to both sinks
C27_Witness ==
  /\ handled.outcome = "ok"
  /\ BothOutputs
  /\ Len(handled.calls) = 2
  /\ handled.message.partition = Num(1)
  /\ handled.message.topic = "orders"

\* ---------------------------------------------------------------- C28
\* C28: the partition / shard key of a republished message is the key of
\* the original message whenever it has one, and otherwise the identifier
\* derived from the payload (its id), on each sink.
C28_KeyIsMessageKeyOrPayloadId ==
  handled # NoCall =>
    \A i \in 1..Len(handled.calls) :
      LET m == handled.message
          c == handled.calls[i]
      IN  IF m.key # None
          THEN c.key = m.key
          ELSE Has(c.data, "id") => c.key = StrOf(c.data["id"])

\* ---------------------------------------------------------------- C29
\* the value the i-th call of _default_processor was given
EnrichInput(i) == IF i = 1 THEN enriched.input ELSE enriched.outs[i - 1]

\* the stamped fields are there
Stamped(y) ==
  /\ Has(y, "processing_version") /\ y["processing_version"] = Str("1.0")
  /\ Has(y, "enriched_at")
  /\ Has(y, "timestamp")

\* C29 as stated: for any input mapping, whatever optional fields are
\* missing, the default processor returns a payload with
\* processing_version, enriched_at and timestamp.
C29_EveryInputIsStamped ==
  \A i \in 1..Len(enriched.outs) : Stamped(enriched.outs[i])

\* C29: the default processor never raises.  When event_type is missing or
\* is a string, the payload it returns has processing_version, enriched_at
\* and a timestamp (the one of the input when it has one), and has
\* event_category, amount_category and session_info added exactly when
\* event_type, a numeric amount and user_id are present; when event_type is
\* there and is not a string, it returns its input as it is.
C29_StampedWhenEventTypeIsText ==
  /\ \A i \in 1..Len(enriched.outs) :
       LET x == EnrichInput(i)
           y == enriched.outs[i]
       IN  IF Has(x, "event_type") /\ ~IsStr(x["event_type"])
           THEN y = x
           ELSE /\ Stamped(y)
                /\ Has(x, "timestamp") => y["timestamp"] = x["timestamp"]
                /\ Has(y, "event_category") <=> Has(x, "event_type")
                /\ Has(x, "event_type") =>
                     y["event_category"] = CategorizeEvent(x["event_type"])
                /\ Has(y, "amount_category") <=>
                     (Has(x, "amount") /\ IsNumber(x["amount"]))
                /\ Has(y, "session_info") <=> Has(x, "user_id")
  /\ (/\ handled # NoCall
      /\ handled.processor = "default_processor"
      /\ ~settings.enable_kafka_output
      /\ ~settings.enable_kinesis_output) => handled.outcome = "ok"

\* an event with its type in capitals and its amount as text, without
\* timestamp and user: it is categorised, stamped and given a timestamp,
\* and gets no amount category
C29_Witness ==
  /\ Len(enriched.outs) >= 1
  /\ DOMAIN enriched.input = {"event_type", "amount"}
  /\ enriched.input["event_type"] = Str("PURCHASE")
  /\ enriched.input["amount"] = Str("12.50")
  /\ enriched.outs[1]["event_category"] = Str("transaction")
  /\ Has(enriched.outs[1], "timestamp")
  /\ ~Has(enriched.outs[1], "amount_category")

\* ---------------------------------------------------------------- C30
\* the two payloads agree on a field: both lack it or both have the same
SameField(y1, y2, k) ==
  /\ Has(y1, k) <=> Has(y2, k)
  /\ Has(y1, k) => y1[k] = y2[k]

\* C30: the default processor applied to its own output gives the same
\* event_category and amount_category as the first application, and
\* leaves the fields of the original value (event_type, amount, user_id,
\* a timestamp it came with) as they were, for every value of Values.
C30_SecondApplicationAgrees ==
  Len(enriched.outs) = 2 =>
    LET x == enriched.input
        y1 == enriched.outs[1]
        y2 == enriched.outs[2]
    IN  /\ SameField(y1, y2, "event_category")
        /\ SameField(y1, y2, "amount_category")
        /\ SameField(y1, y2, "timestamp")
        /\ \A k \in DOMAIN x : Has(y2, k) /\ y2[k] = x[k]

\* an event with type, amount and timestamp was enriched twice, the second
\* time later than the first
C30_Witness ==
  /\ Len(enriched.outs) = 2
  /\ {"event_type", "amount", "timestamp"} \subseteq DOMAIN enriched.input
  /\ enriched.input["event_type"] = Str("purchase")
  /\ enriched.input["amount"] = Num(5000)
  /\ enriched.outs[2]["event_category"] = Str("transaction")
  /\ enriched.outs[2]["amount_category"] = Str("large")
  /\ enriched.outs[2]["enriched_at"] # enriched.outs[1]["enriched_at"]

\* ---------------------------------------------------------------- C31
\* the buckets in their order
BucketRank(b) ==
  CASE b = Str("micro") -> 1
    [] b = Str("small") -> 2
    [] b = Str("medium") -> 3
    [] b = Str("large") -> 4
    [] b = Str("enterprise") -> 5

\* the bucket the thresholds give to h hundredths
ExactBucket(h) ==
  CASE h < 1000 -> Str("micro")
    [] 1000 <= h /\ h < 10000 -> Str("small")
    [] 10000 <= h /\ h < 100000 -> Str("medium")
    [] 100000 <= h /\ h < 1000000 -> Str("large")
    [] h >= 1000000 -> Str("enterprise")

\* C31: _categorize_amount gives every amount one bucket, with exact
\* boundaries: below 10 micro, from 10 and below 100 small, from 100 and
\* below 1000 medium, from 1000 and below 10000 large, from 10000
\* enterprise (9.99 micro, 10 small, 99.99 small, 100 medium, 999.99
\* medium, 1000 large, 9999.99 large, 10000 enterprise); the bucket is
\* monotone in the amount.
C31_BucketsExactAndMonotone ==
  /\ \A i \in 1..Len(bucketed) :
       LET a == bucketed[i].amount
           b == bucketed[i].bucket
       IN  /\ b = ExactBucket(Hundredths(a))
           /\ a = Dec(9, 99) => b = Str("micro")
           /\ a = Num(10) => b = Str("small")
           /\ a = Dec(99, 99) => b = Str("small")
           /\ a = Num(100) => b = Str("medium")
           /\ a = Dec(999, 99) => b = Str("medium")
           /\ a = Num(1000) => b = Str("large")
           /\ a = Dec(9999, 99) => b = Str("large")
           /\ a = Num(10000) => b = Str("enterprise")
  /\ \A i, j \in 1..Len(bucketed) :
       Hundredths(bucketed[i].amount) <= Hundredths(bucketed[j].amount) =>
         BucketRank(bucketed[i].bucket) <= BucketRank(bucketed[j].bucket)

\* 9.99 and then 10 were categorised
C31_Witness ==
  /\ Len(bucketed) = 2
  /\ bucketed[1] = [amount |-> Dec(9, 99), bucket |-> Str("micro")]
  /\ bucketed[2] = [amount |-> Num(10), bucket |-> Str("small")]


\* the order that was handled by order_processor and came out of it
OrderDone ==
  /\ handled # NoCall
  /\ handled.processor = "order_processor"
  /\ Has(handled.payload, "processed_by")

\* the quantities of a list of items, a missing one as 0
QuantitySum(items) ==
  SumOver([i \in 1..Len(items) |->
             IF "quantity" \in DOMAIN items[i].dict
             THEN items[i].dict["quantity"].num ELSE 0],
          1..Len(items))

\* C32: a message on "orders" handled after start goes through the order
\* processor, whose output has item_count equal to the number of entries of
\* items, total_quantity equal to the sum of their quantities (a missing
\* one counts as 0) and order_size_category equal to the bucket of
\* total_amount; total_amount 1500 with quantities 2 and 1 gives 2, 3 and
\* "large"
C32_OrderTotals ==
  /\ [](OrderDone =>
          LET in == handled.message.value
              out == handled.payload
          IN  /\ (Has(in, "items") /\ IsList(in["items"]) =>
                    /\ Has(out, "item_count")
                    /\ out["item_count"] = Num(Len(in["items"].list))
                    /\ Has(out, "total_quantity")
                    /\ out["total_quantity"] =
                         Num(QuantitySum(in["items"].list)))
              /\ (Has(in, "total_amount") =>
                    /\ Has(out, "order_size_category")
                    /\ out["order_size_category"] =
                         ExactBucket(Hundredths(in["total_amount"])))
              /\ (/\ Has(in, "total_amount") /\ in["total_amount"] = Num(1500)
                  /\ Has(in, "items")
                  /\ in["items"] = List(<<Obj([quantity |-> Num(2)]),
                                          Obj([quantity |-> Num(1)])>>)
                  => /\ out["item_count"] = Num(2)
                     /\ out["total_quantity"] = Num(3)
                     /\ out["order_size_category"] = Str("large")))
  /\ [][HandleStep /\ registered # <<>>
        => handled'.processor = "order_processor"]_vars

\* the order of the scenario came out of the order processor
C32_Witness ==
  /\ OrderDone
  /\ handled.outcome = "ok"
  /\ Has(handled.message.value, "total_amount")
  /\ handled.message.value["total_amount"] = Num(1500)
  /\ Has(handled.message.value, "items")
  /\ handled.message.value["items"] =
       List(<<Obj([quantity |-> Num(2)]), Obj([quantity |-> Num(1)])>>)
  /\ handled.payload["total_quantity"] = Num(3)


\* the topic of the handled message had no registered processor
Unregistered(t) == t \notin DOMAIN processors \/ processors[t] = "none"

\* the spellings of a table key that differ from it in case only
Spellings(k) ==
  CASE k = "user_login" -> {"user_login", "USER_LOGIN", "User_Login"}
    [] k = "user_logout" -> {"user_logout", "USER_LOGOUT", "User_Logout"}
    [] k = "password_reset" ->
         {"password_reset", "PASSWORD_RESET", "Password_Reset"}
    [] k = "purchase" -> {"purchase", "PURCHASE", "Purchase"}
    [] k = "refund" -> {"refund", "REFUND", "Refund"}
    [] k = "payment" -> {"payment", "PAYMENT", "Payment"}
    [] k = "page_view" -> {"page_view", "PAGE_VIEW", "Page_View"}
    [] k = "click" -> {"click", "CLICK", "Click"}
    [] k = "search" -> {"search", "SEARCH", "Search"}
    [] k = "error" -> {"error", "ERROR", "Error"}
    [] k = "warning" -> {"warning", "WARNING", "Warning"}

\* the category the table gives to an event type, whatever its case
TableCategory(e) ==
  LET In(K) == \E k \in K : e \in Spellings(k)
  IN  CASE In({"user_login", "user_logout", "password_reset"})
             -> "authentication"
        [] In({"purchase", "refund", "payment"}) -> "transaction"
        [] In({"page_view", "click", "search"}) -> "analytics"
        [] In({"error", "warning"}) -> "system"
        [] OTHER -> "other"

\* C33: a message on a topic with no registered processor is enriched by
\* the default processor, and the event_category of its output is the
\* table's category of the (text) event_type compared without regard to
\* case, "other" for an event type the table lacks; event_type "purchase"
\* on "unknown_topic" gives "transaction"
C33_DefaultCategorizes ==
  /\ [][HandleStep /\ Unregistered(handled'.message.topic)
        => handled'.processor = "default_processor"]_vars
  /\ [](handled # NoCall /\ handled.processor = "default_processor"
        /\ Has(handled.message.value, "event_type")
        /\ IsStr(handled.message.value["event_type"])
        => /\ Has(handled.payload, "event_category")
           /\ handled.payload["event_category"] =
                Str(TableCategory(handled.message.value["event_type"].str))
           /\ (/\ handled.message.topic = "unknown_topic"
               /\ handled.message.value["event_type"] = Str("purchase")
               => handled.payload["event_category"] = Str("transaction")))

\* "PAGE_VIEW" arrived on "unknown_topic" and was put under analytics
C33_Witness ==
  /\ handled # NoCall
  /\ handled.message.topic = "unknown_topic"
  /\ handled.processor = "default_processor"
  /\ Has(handled.message.value, "event_type")
  /\ handled.message.value["event_type"] = Str("PAGE_VIEW")
  /\ Has(handled.payload, "event_category")
  /\ handled.payload["event_category"] = Str("analytics")


\* C34 as stated: every successfully processed message is counted in the
\* messages_per_second numerator of exactly one metrics cycle: when a cycle
\* completes, the successes counted since it computed its rate (those that
\* happened while it was suspended in its flush) are what the counter holds
\* for the next cycle, no more and no less.
C34_CountedInOneCycle ==
  [][CycleCompletes => stats'.messages_processed = since_boundary']_vars


\* the processor the last call of register_processor named for topic t
LastCustom(h, t) ==
  LET S == {i \in 1..Len(h) : h[i][1] = t /\ h[i][2] \in CustomProcessors}
  IN  IF S = {} THEN "none"
      ELSE h[CHOOSE i \in S : \A j \in S : j <= i][2]

\* C37 as stated: a custom processor registered with register_processor
\* for a topic stays the processor used for that topic across
\* start_processing and across stop followed by restart, for every topic
\* including "orders", "users" and "events".
C37_CustomProcessorSurvivesStart ==
  \A t \in AllTopics :
    LastCustom(registered, t) # "none" =>
      Resolve(processors, t) = LastCustom(registered, t)


\* the metrics task is suspended in the batch publish of a flush
InFlush == mtask.pc \in {"send", "wait"}

\* the step ends the flush with the publish failed after its retries
FlushFails ==
  /\ InFlush
  /\ OnlyMetricsMoves
  /\ mtask'.pc \notin {"send", "wait"}
  /\ emitted' = emitted

\* buf is the start of buf2
IsPrefix(buf, buf2) ==
  Len(buf) <= Len(buf2) /\ SubSeq(buf2, 1, Len(buf)) = buf

\* C38: a flush that cannot complete, because the batch publish fails after
\* its retries or because the metrics task is cancelled during the publish,
\* leaves the metrics buffer as it was plus the records appended meanwhile
\* and loses no record; the publish failure does not end the metrics loop,
\* which goes back to its sleep with the buffer still over its capacity;
\* and the next flush offers the whole buffer, the retained records
\* included.
C38_FailedFlushKeepsBuffer ==
  /\ [][InFlush /\ emitted' = emitted
        => IsPrefix(metrics_buffer, metrics_buffer') /\ lost' = lost]_vars
  /\ [][FlushFails
        => /\ mtask'.pc = "sleep"
           /\ metrics_buffer' = metrics_buffer
           /\ Len(metrics_buffer') > metrics_buffer_size]_vars
  /\ [][StopCancels /\ InFlush
        => metrics_buffer' = metrics_buffer /\ lost' = lost]_vars
  /\ [][mtask.pc = "sleep" /\ mtask'.pc = "send"
        => mtask'.sent = Len(metrics_buffer')
           /\ IsPrefix(metrics_buffer, metrics_buffer')]_vars

\* a new flush offers a buffer of which more records than a cycle leaves
\* unflushed are older than the last reset of the counters: the flush of
\* the cycle that reset them failed, its records were kept and are in the
\* batch again
C38_Witness ==
  /\ settings.enable_metrics_to_kafka
  /\ mtask.pc = "send"
  /\ mtask.sent = Len(metrics_buffer)
  /\ Len(metrics_buffer) - stats.messages_processed > metrics_buffer_size
  /\ \A r \in RecordIds : emitted[r] = 0
  /\ lost = {}


\* C35 as stated: under any sequence or interleaving of start_processing,
\* stop and restart requests, two start requests that overlap before
\* is_running becomes true included, at most one delivery loop exists per
\* topic at any time.
C35_OneLoopPerTopic == \A t \in Topics : live_loops[t] <= 1

\* the metrics tasks that have not ended
MetricsAlive == {k \in Requests : metrics_tasks[k] = "alive"}

\* C36 as stated: under any sequence or interleaving of start_processing,
\* stop and restart requests, at most one metrics-collection task is active
\* at any time.
C36_OneMetricsTask == Cardinality(MetricsAlive) <= 1


\* C40 as stated: after any completed sequence of subscribe_to_topic,
\* unsubscribe_from_topic and stop calls on KafkaService, ones in which
\* stopping a consumer fails included, the three maps agree: a topic is in
\* consumers if and only if it has a live consumer task in _consumer_tasks
\* and a handler in _message_handlers.
C40_MapsAgree ==
  \A t \in AllTopics :
    t \in consumers <=>
      (consumer_tasks[t] = "live" /\ t \in message_handlers)

\* the handler call of the streaming consumer is on a create, update or
\* delete event that carries the row images its operation needs
OtherwiseHandled(e) ==
  CASE e.op = "c" -> IsRow(e.after) /\ Has(e.after, "id")
    [] e.op = "u" -> IsRow(e.before) /\ IsRow(e.after)
    [] e.op = "d" -> IsRow(e.before)
    [] OTHER -> FALSE

\* C39 as stated: a failure to forward an event to its analytics topic
\* never fails the CDC handler: for a create, update or delete event that
\* is otherwise handled, the handler returns at its first attempt with
\* processed_count increased by exactly 1 and error_count unchanged,
\* whether or not the analytics publish succeeded.
C39_ForwardFailureNeverFailsHandler ==
  [][/\ streaming_consumer.call.pc = "running"
     /\ streaming_consumer'.call.pc # "running"
     /\ OtherwiseHandled(streaming_consumer.call.event)
     => /\ streaming_consumer'.call.pc = "returned"
        /\ streaming_consumer'.call.attempts = 1
        /\ streaming_consumer'.processed_count =
             streaming_consumer.processed_count + 1
        /\ streaming_consumer'.error_count =
             streaming_consumer.error_count]_vars

====
